---- MODULE Spec2Model ----
(***************************************************************************)
(* Ark-on-Liquid proof of concept: the PoolManager batching / signature    *)
(* collection state machine, the repository it persists to, and the        *)
(* PoolWatcher's watchRedeem loop.                                         *)
(*                                                                         *)
(* Hashes and signatures are modelled as ideal, structured values: a hash  *)
(* is the tuple of what was hashed, a Schnorr signature is the pair        *)
(* (signing key, digest), a Merkle root is the set of the tree's leaves    *)
(* and a control block is the set of the sibling leaves.                   *)
(***************************************************************************)
EXTENDS Integers, Sequences, FiniteSets, TLC

\* ------------------------------------------------------------------ bounds
\* number of sendRequest() calls explored
MaxRequests == 2
\* number of times wallet.sign fails for one pending pool
MaxSignFailures == 1
\* number of redeem transactions the users broadcast
MaxRedeems == 2

\* ------------------------------------------------------- keys and constants
\* x-only public keys of the users
Keys == {"alice", "bob"}

\* wallet.getPublicKey().subarray(1) of the ASP wallet
AspPublicKey == "asp"

X_H_POINT == "H_POINT"

\* the default timelocks as the scripts carry them; LoadTimeouts is their
\* computation when the module is loaded
CLAIM_TIMEOUT == "bip68(30d)"

REDEEM_TIMEOUT == "bip68(15d)"

\* JS `undefined` for the optional amount; every use of transfer.amount is a
\* truthiness test, so 0 and undefined behave alike
NoAmount == 0

\* txids of the pool transactions built by the manager; the wallet selects
\* fresh coins for every build, so every build has its own txid
PoolTxIDs == <<"P1", "P2", "P3", "P4", "P5", "P6">>

\* ------------------------------------------------------------ script codecs
CheckSequenceVerifyScript(ownerPublicKey, timeoutBIP68) ==
    [kind |-> "csv", ownerPublicKey |-> ownerPublicKey, timeoutBIP68 |-> timeoutBIP68]

\* `shared` is the continuation amount the shared-coin tree embeds in the leaf
\* (0: none); FrozenReceiverScript.decompile ignores it, extractSharedUtxo reads it
FrozenReceiverLeaf(ownerPublicKey, witnessProgram, shared) ==
    [kind |-> "frozen", ownerPublicKey |-> ownerPublicKey,
     witnessProgram |-> witnessProgram, shared |-> shared]

ForfeitScript(ownerPubKey, providerPubKey) ==
    [kind |-> "forfeit", ownerPubKey |-> ownerPubKey, providerPubKey |-> providerPubKey]

\* ------------------------------------------------------------------ taproot
taprootWitnessProgram(internalKey, root) ==
    [internalKey |-> internalKey, root |-> root]

taprootOutputScript(internalKey, root) ==
    [version |-> "OP_1", program |-> taprootWitnessProgram(internalKey, root)]

computeMerkleRoot(controlBlock, leaf) == controlBlock \cup {leaf}

redeemTxTapTree(serviceProviderPubKey, vUtxoPublicKey, redeemTimeout) ==
    LET forfeit == ForfeitScript(vUtxoPublicKey, serviceProviderPubKey)
        claim   == CheckSequenceVerifyScript(vUtxoPublicKey, redeemTimeout)
    IN  [tree        |-> [hash |-> {forfeit, claim}],
         claimLeaf   |-> [script |-> claim, controlBlock |-> {forfeit}],
         forfeitLeaf |-> [script |-> forfeit, controlBlock |-> {claim}]]

redeemPath(serviceProviderPublicKey, vUtxoPublicKey) ==
    LET redeemTree == redeemTxTapTree(serviceProviderPublicKey, vUtxoPublicKey,
                                      REDEEM_TIMEOUT)
    IN  [outputScript |-> taprootOutputScript(X_H_POINT, redeemTree.tree.hash),
         redeemTree   |-> redeemTree]

\* a claim leaf made for a key that is not the service provider's
ClaimLeafOfStranger(serviceProviderPublicKey, claimTimeout) ==
    CheckSequenceVerifyScript("mallory", claimTimeout)

vUtxoClaimLeaf(serviceProviderPublicKey, claimTimeout) ==
    CheckSequenceVerifyScript(serviceProviderPublicKey, claimTimeout)

\* ------------------------------------------------------- forfeit primitives
hashForfeitMessage(msg) ==
    <<"sha256", msg.vUtxoTxID, msg.vUtxoIndex, msg.promisedPoolTxID>>

signSchnorr(key, digest) == [signer |-> key, digest |-> digest]

verifySchnorr(digest, publicKey, signature) ==
    signature.signer = publicKey /\ signature.digest = digest

\* --------------------------------------------- vUTXOs the users hold (lifts)
\* the leaves of a shared-coin tree: the ASP claim leaf and one FrozenReceiver
\* leaf per stakeholder, each embedding the amount left to the other stakeholders
SharedTotal(stake) ==
    LET RECURSIVE Sum(_)
        Sum(S) == IF S = {} THEN 0
                  ELSE LET k == CHOOSE x \in S : TRUE IN stake[k] + Sum(S \ {k})
    IN  Sum(DOMAIN stake)

StakeholderLeaf(aspKey, stake, k) ==
    FrozenReceiverLeaf(k, redeemPath(aspKey, k).outputScript.program,
                       SharedTotal(stake) - stake[k])

SharedLeaves(aspKey, stake) ==
    {vUtxoClaimLeaf(aspKey, CLAIM_TIMEOUT)}
        \cup {StakeholderLeaf(aspKey, stake, k) : k \in DOMAIN stake}

\* what createLiftTransaction hands to stakeholder k of a lift with txid `txid`
LiftedUtxo(aspKey, txid, stake, k) ==
    LET leaves == SharedLeaves(aspKey, stake)
        claim  == vUtxoClaimLeaf(aspKey, CLAIM_TIMEOUT)
        redeem == StakeholderLeaf(aspKey, stake, k)
    IN  [vUtxo |-> [txid |-> txid, txIndex |-> 0, tapInternalKey |-> X_H_POINT,
                    witnessUtxo |-> [value  |-> SharedTotal(stake),
                                     script |-> taprootOutputScript(X_H_POINT, leaves)]],
         vUtxoTree |-> [claimLeaf  |-> [script |-> claim,
                                        controlBlock |-> leaves \ {claim}],
                        redeemLeaf |-> [script |-> redeem,
                                        controlBlock |-> leaves \ {redeem}]],
         redeemTree |-> redeemPath(aspKey, k).redeemTree]

\* lift L1 is shared by alice (3) and bob (2); lift L2 belongs to alice alone (1):
\* a declared amount of 2 is below, equal to and above the vUTXO amount
StakeL1 == [k \in Keys |-> IF k = "alice" THEN 3 ELSE 2]

StakeL2 == [k \in {"alice"} |-> 1]

\* a vUTXO of a pool run by another service provider
ForeignUtxos == {LiftedUtxo("other-asp", "L3", StakeL2, "alice")}

\* the sendRequest() calls explored: (vUTXO, toPublicKey, amount)
TransferInputs ==
    {<<LiftedUtxo(AspPublicKey, "L1", StakeL1, "alice"), "bob", 2>>,
     <<LiftedUtxo(AspPublicKey, "L1", StakeL1, "alice"), "bob", NoAmount>>,
     <<LiftedUtxo(AspPublicKey, "L1", StakeL1, "bob"), "alice", NoAmount>>,
     <<LiftedUtxo(AspPublicKey, "L2", StakeL2, "alice"), "bob", NoAmount>>,
     <<LiftedUtxo(AspPublicKey, "L2", StakeL2, "alice"), "bob", 2>>}
        \cup {<<e, "bob", NoAmount>> : e \in ForeignUtxos}

\* ------------------------------------------------------ PoolManager.validate
\* "ok", or the message of the error validate throws
validate(e) ==
    LET claimScript == e.vUtxoTree.claimLeaf.script
        redeemClaim == e.redeemTree.claimLeaf.script
        forfeit     == e.redeemTree.forfeitLeaf.script
        toRedeem    == e.vUtxoTree.redeemLeaf.script
        expectedWitness == taprootWitnessProgram(X_H_POINT, e.redeemTree.tree.hash)
        root          == computeMerkleRoot(e.vUtxoTree.redeemLeaf.controlBlock, toRedeem)
        rootFromClaim == computeMerkleRoot(e.vUtxoTree.claimLeaf.controlBlock, claimScript)
    IN  IF e.vUtxo.tapInternalKey # X_H_POINT THEN "invalid tapInternalKey"
        ELSE IF claimScript.kind # "csv" THEN "Invalid script"
        ELSE IF claimScript.ownerPublicKey # AspPublicKey THEN "invalid vUtxo claim leaf"
        ELSE IF redeemClaim.kind # "csv" THEN "Invalid script"
        ELSE IF forfeit.kind # "forfeit" THEN "Invalid script"
        ELSE IF forfeit.ownerPubKey # redeemClaim.ownerPublicKey THEN "invalid redeem tree"
        ELSE IF forfeit.providerPubKey # claimScript.ownerPublicKey THEN "invalid redeem tree"
        ELSE IF toRedeem.kind # "frozen" THEN "Invalid script"
        ELSE IF toRedeem.ownerPublicKey # redeemClaim.ownerPublicKey THEN "invalid redeem tree"
        ELSE IF toRedeem.witnessProgram # expectedWitness THEN "invalid redeem leaf"
        ELSE IF root # rootFromClaim THEN "invalid vUtxo tree"
        ELSE IF e.vUtxo.witnessUtxo.script.program # taprootWitnessProgram(X_H_POINT, root)
             THEN "invalid vUtxo scriptPubKey"
        ELSE "ok"

\* ------------------------------------------------------------------- state
VARIABLES
    queue,          \* PoolManager.queue: the orders waiting for the timer
    timer,          \* PoolManager.timer # null
    building,       \* batches inside processSendOrders, awaiting createPoolTransaction
    pendingPool,    \* PoolManager.pendingPool: promised txid -> pending pool
    nextTx,         \* number of pool transactions built so far
    requests,       \* one record per sendRequest() call: its inputs and its promise
    resolveLog,     \* ids of the sendRequest promises in the order they were resolved
    lastSend,       \* the send() call made by the last step, if any, and its promise
    persisting,     \* the persistence chain send() started for a finalized pool
    poolTransactions,       \* TestRepository.poolTransactions
    forfeitByScriptPubKey,  \* TestRepository.forfeitByScriptPubKey
    chainUnspents,  \* the chain: unspent outputs paying a redeem script, oldest first
    chainSpent,     \* the chain: outpoints spent by the broadcast forfeit transactions
    broadcasts,     \* the chain: forfeit transactions accepted by broadcastTransaction
    watch,          \* one record per watchRedeem() call: its locals and its promise
    built           \* the last call of a transaction builder: its arguments and its result

vars == <<queue, timer, building, pendingPool, nextTx, requests, resolveLog,
          lastSend, persisting, poolTransactions, forfeitByScriptPubKey,
          chainUnspents, chainSpent, broadcasts, watch, built>>

chainVars == <<chainUnspents, chainSpent, broadcasts>>

watcherVars == <<chainUnspents, chainSpent, broadcasts, watch>>

managerVars == <<queue, timer, building, pendingPool, nextTx, requests, resolveLog,
                 lastSend, persisting, built>>

repositoryVars == <<poolTransactions, forfeitByScriptPubKey>>

\* the watchRedeem() calls explored
Runs == {"w1", "w2"}

NoForfeit ==
    [msg |-> [vUtxoTxID |-> "", vUtxoIndex |-> 0, promisedPoolTxID |-> ""],
     sig |-> [signer |-> "", digest |-> <<>>]]

NoPool == [hex |-> [hex |-> ""], connectors |-> <<>>]

NoTx == [ins |-> <<>>, witness |-> <<>>]

\* watchRedeem() was not called
IdleRun ==
    [pc |-> "idle", vUtxoPublicKey |-> "", forfeit |-> NoForfeit,
     sig |-> [signer |-> "", digest |-> <<>>], unspents |-> <<>>, index |-> 0,
     promisedPool |-> NoPool, forfeitTx |-> NoTx, broadcastedTxIDs |-> <<>>,
     error |-> "", returned |-> <<>>]

\* no transaction builder was called
NoBuild == [kind |-> "none", args |-> <<>>, error |-> "", result |-> <<>>]

\* no send() call was made by the last step
NoSend ==
    [msg |-> [vUtxoTxID |-> "", vUtxoIndex |-> 0, promisedPoolTxID |-> ""],
     signature |-> [signer |-> "", digest |-> <<>>],
     state |-> "none", reason |-> ""]

Init ==
    /\ queue = <<>>
    /\ timer = FALSE
    /\ building = {}
    /\ pendingPool = <<>>
    /\ nextTx = 0
    /\ requests = <<>>
    /\ resolveLog = <<>>
    /\ lastSend = NoSend
    /\ persisting = <<>>
    /\ poolTransactions = <<>>
    /\ forfeitByScriptPubKey = <<>>
    /\ chainUnspents = <<>>
    /\ chainSpent = {}
    /\ broadcasts = <<>>
    /\ watch = [r \in Runs |-> IdleRun]
    /\ built = NoBuild

\* ------------------------------------------------------ promise bookkeeping
NoValue == [nextPoolPset |-> "", forfeitMessage |-> <<>>,
            receiverUtxo |-> <<>>, changeUtxo |-> <<>>]

\* settle the promises `ids`; a promise that is already settled keeps its state
RejectPromises(promises, ids, reason) ==
    [i \in DOMAIN promises |->
        IF i \in ids /\ promises[i].state = "pending"
        THEN [promises[i] EXCEPT !.state = "rejected", !.reason = reason]
        ELSE promises[i]]

\* ---------------------------------------------------- PoolManager.sendRequest
\* the entry sendRequest pushes to the queue; `id` stands for the resolve and
\* reject of the promise it returns
QueuedOrder(id, e, toPublicKey, amount) ==
    [id |-> id,
     signerPublicKey |-> e.redeemTree.claimLeaf.script.ownerPublicKey,
     amount |-> amount,
     vUtxo |-> [txid |-> e.vUtxo.txid, txIndex |-> e.vUtxo.txIndex,
                value |-> e.vUtxo.witnessUtxo.value],
     toPublicKey |-> toPublicKey,
     redeemLeaf |-> e.vUtxoTree.redeemLeaf.script]

\* the call and its promise: what was asked and what came back
RequestRecord(e, toPublicKey, amount) ==
    [vUtxo |-> [txid |-> e.vUtxo.txid, txIndex |-> e.vUtxo.txIndex],
     owner |-> e.redeemTree.claimLeaf.script.ownerPublicKey,
     toPublicKey |-> toPublicKey, amount |-> amount,
     coinValue |-> e.vUtxo.witnessUtxo.value - e.vUtxoTree.redeemLeaf.script.shared,
     txID |-> "", reason |-> "", value |-> NoValue,
     state |-> IF validate(e) = "ok" THEN "pending" ELSE "thrown"]

\* validate throws: sendRequest throws synchronously, nothing is enqueued
SendRequestInvalid(e, toPublicKey, amount) ==
    /\ Len(requests) < MaxRequests
    /\ validate(e) # "ok"
    /\ requests' = Append(requests, [RequestRecord(e, toPublicKey, amount)
                                        EXCEPT !.reason = validate(e)])
    /\ lastSend' = NoSend
    /\ UNCHANGED <<watcherVars, built>>
    /\ UNCHANGED <<queue, timer, building, pendingPool, nextTx, resolveLog,
                   persisting, repositoryVars>>

SendRequest(e, toPublicKey, amount) ==
    /\ Len(requests) < MaxRequests
    /\ validate(e) = "ok"
    /\ queue' = Append(queue, QueuedOrder(Len(requests) + 1, e, toPublicKey, amount))
    /\ requests' = Append(requests, RequestRecord(e, toPublicKey, amount))
    /\ timer' = TRUE
    /\ lastSend' = NoSend
    /\ UNCHANGED <<watcherVars, built>>
    /\ UNCHANGED <<building, pendingPool, nextTx, resolveLog, persisting,
                   repositoryVars>>

\* a callback that leaves the queue as it found it
QueueKept(queueState) == queueState

\* this.queue = []: the queue after the callback copied it
QueueEmptied(queueState) == <<>>

\* the setTimeout callback: the queue becomes one batch
TimerFire ==
    /\ timer
    /\ building' = building \cup {queue}
    /\ queue' = QueueEmptied(queue)
    /\ timer' = FALSE
    /\ lastSend' = NoSend
    /\ UNCHANGED <<watcherVars, built>>
    /\ UNCHANGED <<pendingPool, nextTx, requests, resolveLog, persisting,
                   repositoryVars>>

\* ------------------------------------------------------ createPoolTransaction
MapSet(f, k, v) == [x \in DOMAIN f \cup {k} |-> IF x = k THEN v ELSE f[x]]

MapDelete(f, k) == [x \in DOMAIN f \ {k} |-> f[x]]

vUtxoAmount(transfer) == transfer.vUtxo.value - transfer.redeemLeaf.shared

\* the stakeholders one transfer pushes: the receiver, then the sender's change
TransferStakeholders(transfer) ==
    LET coinValue == vUtxoAmount(transfer)
    IN  <<[key    |-> transfer.toPublicKey,
           amount |-> IF transfer.amount # NoAmount THEN transfer.amount ELSE coinValue]>>
        \o (IF transfer.amount # NoAmount /\ coinValue - transfer.amount > 0
            THEN <<[key    |-> transfer.redeemLeaf.ownerPublicKey,
                    amount |-> coinValue - transfer.amount]>>
            ELSE <<>>)

RECURSIVE StakeHolders(_)
StakeHolders(transfers) ==
    IF transfers = <<>> THEN <<>>
    ELSE TransferStakeholders(Head(transfers)) \o StakeHolders(Tail(transfers))

\* the throw of the loop over the transfers
AmountTooLow(transfers) ==
    \E i \in DOMAIN transfers :
        /\ transfers[i].amount # NoAmount
        /\ vUtxoAmount(transfers[i]) < transfers[i].amount

RECURSIVE SumAmounts(_)
SumAmounts(stakeHolders) ==
    IF stakeHolders = <<>> THEN 0
    ELSE Head(stakeHolders).amount + SumAmounts(Tail(stakeHolders))

\* leaves is a Map keyed by the owner key read back from each redeem tree
PoolLeaves(stakeHolders) ==
    [k \in {stakeHolders[i].key : i \in DOMAIN stakeHolders} |-> [redeemLeafOwner |-> k]]

\* indexes counted from the fee output
ConnectorsFromFee(transfers) == [i \in 1..Len(transfers) |-> i]

ConnectorsIndexes(transfers) == [i \in 1..Len(transfers) |-> i + 1]

DUST == 400

CHAIN_FEE == 500

\* the amount of one faucet coin of the ASP wallet
FaucetAmount == 100000000

\* wallet.getChangeScriptPubKey()
ChangeScriptPubKey == "asp-p2wpkh"

\* an unblinded coin of the wallet: explicit value and explicit asset
ExplicitCoin(value) ==
    [witnessUtxo |-> TRUE, value |-> value,
     valueConfidential |-> FALSE, assetConfidential |-> FALSE]

\* an output made by new CreatorOutput(network.assetHash, amount, script)
CreatorOutput(amount, script) == [asset |-> "explicit", value |-> amount, script |-> script]

\* wallet.coinSelect: as many faucet coins as the amount needs, and the rest
\* as a change output unless there is no rest
coinSelect(amount) ==
    LET numberOfFaucets == (amount + FaucetAmount - 1) \div FaucetAmount
        changeAmount    == numberOfFaucets * FaucetAmount - amount
    IN  [coins  |-> [i \in 1..numberOfFaucets |-> ExplicitCoin(FaucetAmount)],
         change |-> IF changeAmount = 0 THEN <<>>
                    ELSE <<CreatorOutput(changeAmount, ChangeScriptPubKey)>>]

\* sharedCoinTree(stakeHolders, [claimLeaf]): the claim leaf and one leaf per
\* stakeholder, embedding what the shared coin leaves to the others
SharedCoinLeaves(aspKey, claimTimeout, stakeHolders) ==
    {vUtxoClaimLeaf(aspKey, claimTimeout)}
        \cup {FrozenReceiverLeaf(stakeHolders[i].key,
                                 redeemPath(aspKey, stakeHolders[i].key).outputScript.program,
                                 SumAmounts(stakeHolders) - stakeHolders[i].amount) :
                  i \in DOMAIN stakeHolders}

\* the outputs of the pool transaction, first to last
PoolOutputs(stakeHolders, transfers, minerFee, change) ==
    <<CreatorOutput(SumAmounts(stakeHolders),
                    taprootOutputScript(X_H_POINT,
                        SharedCoinLeaves(AspPublicKey, CLAIM_TIMEOUT, stakeHolders))),
      CreatorOutput(minerFee, "")>>
        \o [i \in 1..Len(transfers) |-> CreatorOutput(DUST, ChangeScriptPubKey)]
        \o change

createPoolTransaction(transfers, txID) ==
    LET stakeHolders == StakeHolders(transfers)
        selection    == coinSelect(SumAmounts(stakeHolders) + CHAIN_FEE
                                       + DUST * Len(transfers))
    IN  [unsignedPoolPset |-> txID,
         leaves     |-> PoolLeaves(stakeHolders),
         connectors |-> ConnectorsIndexes(transfers),
         vUtxo      |-> [txid |-> txID, txIndex |-> 0,
                         value |-> SumAmounts(stakeHolders)],
         stakeHolders |-> stakeHolders,
         ins        |-> selection.coins,
         outs       |-> PoolOutputs(stakeHolders, transfers, CHAIN_FEE, selection.change)]

\* the record of a builder call that returned / that threw
Returned(kind, args, result) ==
    [kind |-> kind, args |-> args, error |-> "", result |-> result]

Thrown(kind, args, error) ==
    [kind |-> kind, args |-> args, error |-> error, result |-> <<>>]

\* ------------------------------------------- PoolManager.processSendOrders
Undefined == [defined |-> FALSE, vUtxo |-> "", redeemLeafOwner |-> ""]

ReceiverUtxoOf(order, pool) ==
    [defined |-> TRUE, vUtxo |-> pool.vUtxo.txid,
     redeemLeafOwner |-> pool.leaves[order.toPublicKey].redeemLeafOwner]

ChangeUtxoOf(order, pool) ==
    IF order.signerPublicKey \in DOMAIN pool.leaves
    THEN [defined |-> TRUE, vUtxo |-> pool.vUtxo.txid,
          redeemLeafOwner |-> pool.leaves[order.signerPublicKey].redeemLeafOwner]
    ELSE Undefined

ForfeitMessageOf(order, txID) ==
    [vUtxoTxID |-> order.vUtxo.txid, vUtxoIndex |-> order.vUtxo.txIndex,
     promisedPoolTxID |-> txID]

ToForfeit(orders) ==
    [i \in DOMAIN orders |->
        [txID |-> orders[i].vUtxo.txid, txIndex |-> orders[i].vUtxo.txIndex,
         ownerPublicKey |-> orders[i].signerPublicKey]]

\* a loop that walks the batch from its last order to its first
ReverseResolutionOrder(orders) ==
    [i \in DOMAIN orders |-> orders[Len(orders) + 1 - i].id]

\* the order in which the loop over ordersWithReceiverUtxo resolves the promises
ResolutionOrder(orders) == [i \in DOMAIN orders |-> orders[i].id]

OrderOf(orders, id) == orders[CHOOSE i \in DOMAIN orders : orders[i].id = id]

OrderIds(orders) == {orders[i].id : i \in DOMAIN orders}

ResolveOrders(promises, orders, pool, txID) ==
    [id \in DOMAIN promises |->
        IF id \in OrderIds(orders) /\ promises[id].state = "pending"
        THEN [promises[id] EXCEPT
                 !.state = "resolved",
                 !.txID = txID,
                 !.value = [nextPoolPset   |-> pool.unsignedPoolPset,
                            forfeitMessage |-> ForfeitMessageOf(OrderOf(orders, id), txID),
                            receiverUtxo   |-> ReceiverUtxoOf(OrderOf(orders, id), pool),
                            changeUtxo     |-> ChangeUtxoOf(OrderOf(orders, id), pool)]]
        ELSE promises[id]]

\* a catch block that rejects the promise of the first order only
RejectFirstOrder(promises, orders, e) == RejectPromises(promises, {orders[1].id}, e)

\* the catch block: every promise of the batch is rejected with the error
RejectOrders(promises, orders, e) == RejectPromises(promises, OrderIds(orders), e)

\* createPoolTransaction returned: the pool becomes pending, then the promises
\* of the batch are resolved in the order of the batch
PoolBuilt(orders) ==
    /\ orders \in building
    /\ orders # <<>>
    /\ ~AmountTooLow(orders)
    /\ LET txID == PoolTxIDs[nextTx + 1]
           pool == createPoolTransaction(orders, txID)
       IN  /\ pendingPool' = MapSet(pendingPool, txID,
                  [pset |-> txID, signatures |-> <<>>,
                   toForfeit |-> ToForfeit(orders), connectors |-> pool.connectors])
           /\ requests' = ResolveOrders(requests, orders, pool, txID)
           /\ resolveLog' = resolveLog \o ResolutionOrder(orders)
    /\ nextTx' = nextTx + 1
    /\ building' = building \ {orders}
    /\ built' = Returned("pool", orders, createPoolTransaction(orders, PoolTxIDs[nextTx + 1]))
    /\ lastSend' = NoSend
    /\ UNCHANGED watcherVars
    /\ UNCHANGED <<queue, timer, persisting, repositoryVars>>

\* createPoolTransaction threw (an amount above the vUTXO amount) or the
\* wallet's coin selection failed: txID is still undefined in the catch block
BuildError(orders) ==
    IF AmountTooLow(orders) THEN "vUtxo amount too low" ELSE "coin selection failed"

PoolBuildFails(orders) ==
    /\ orders \in building
    /\ orders # <<>>
    /\ requests' = RejectOrders(requests, orders, BuildError(orders))
    /\ building' = building \ {orders}
    /\ lastSend' = NoSend
    /\ UNCHANGED <<watcherVars, built>>
    /\ UNCHANGED <<queue, timer, pendingPool, nextTx, resolveLog, persisting,
                   repositoryVars>>

\* ------------------------------------------------------- PoolManager.send
\* the forfeit messages the callers of send() may present
KnownPoolTxIDs == {PoolTxIDs[i] : i \in 1..nextTx}

SendMessages ==
    [vUtxoTxID : {"L1", "L2"}, vUtxoIndex : {0}, promisedPoolTxID : KnownPoolTxIDs]
        \cup [vUtxoTxID : {"L1"}, vUtxoIndex : {1}, promisedPoolTxID : KnownPoolTxIDs]
        \cup [vUtxoTxID : {"L1"}, vUtxoIndex : {0}, promisedPoolTxID : {"unknown"}]

\* the position of the first toForfeit entry with the message's outpoint;
\* 0 stands for the -1 of Array.findIndex
FindIndex(toForfeit, msg) ==
    LET found == {i \in DOMAIN toForfeit :
                     /\ toForfeit[i].txIndex = msg.vUtxoIndex
                     /\ toForfeit[i].txID = msg.vUtxoTxID}
    IN  IF found = {} THEN 0
        ELSE CHOOSE i \in found : \A j \in found : i <= j

RemoveAt(seq, i) ==
    [j \in 1..(Len(seq) - 1) |-> IF j < i THEN seq[j] ELSE seq[j + 1]]

\* Extractor.extract(signed).toHex() and Transaction.fromHex(hex).getId()
Hex(txID) == [hex |-> txID]

TxIdOfHex(h) == h.hex

NoHex == [hex |-> ""]

\* reject(e) / resolve(hex) of every entry of signatures; a promise that is
\* already settled keeps its state
RejectAll(signatures, reason) ==
    [i \in DOMAIN signatures |->
        IF signatures[i].state = "pending"
        THEN [signatures[i] EXCEPT !.state = "rejected", !.reason = reason]
        ELSE signatures[i]]

ResolveAll(signatures, hex) ==
    [i \in DOMAIN signatures |->
        IF signatures[i].state = "pending"
        THEN [signatures[i] EXCEPT !.state = "resolved", !.value = hex]
        ELSE signatures[i]]

\* the state of the call's promise after the signature check: reject() is
\* called on a bad signature and the executor goes on
VerifyOutcome(msg, ownerPublicKey, signature) ==
    IF ~verifySchnorr(hashForfeitMessage(msg), ownerPublicKey, signature)
    THEN [state |-> "rejected", reason |-> "invalid signature"]
    ELSE [state |-> "pending", reason |-> ""]

\* signatures.push(...): the array is shared with the entry of the map; the
\* entry holds the resolve and reject of the call's promise
PushSignature(signatures, msg, signature, ownerPublicKey, outcome) ==
    Append(signatures,
           [msg |-> msg, signature |-> signature,
            redeemScriptPubKey |-> redeemPath(AspPublicKey, ownerPublicKey).outputScript,
            state |-> outcome.state, reason |-> outcome.reason, value |-> NoHex])

\* sign failures left to explore for a pool: each one leaves one more entry
\* in signatures than there are orders
SignFailures(pool) == Len(pool.signatures) + Len(pool.toForfeit) - Len(pool.connectors)

\* wallet.sign is called by the send() that empties toForfeit, by no other
CallsSign(msg) ==
    /\ msg.promisedPoolTxID \in DOMAIN pendingPool
    /\ FindIndex(pendingPool[msg.promisedPoolTxID].toForfeit, msg) # 0
    /\ Len(pendingPool[msg.promisedPoolTxID].toForfeit) = 1

Send(msg, signature, signOk) ==
    /\ signOk \/ CallsSign(msg)
    /\ LET txID == msg.promisedPoolTxID
           call == [msg |-> msg, signature |-> signature,
                    state |-> "pending", reason |-> ""]
       IN  IF txID \notin DOMAIN pendingPool
           THEN \* reject, then the read of pendingPool.toForfeit throws
                /\ lastSend' = [call EXCEPT !.state = "rejected",
                                            !.reason = "pool tx not found"]
                /\ UNCHANGED <<pendingPool, persisting>>
           ELSE
           LET pool       == pendingPool[txID]
               vUtxoIndex == FindIndex(pool.toForfeit, msg)
           IN  IF vUtxoIndex = 0
               THEN \* reject, then destructuring toForfeit[-1] throws
                    /\ lastSend' = [call EXCEPT !.state = "rejected",
                                                !.reason = "vUtxo not found"]
                    /\ UNCHANGED <<pendingPool, persisting>>
               ELSE
               LET ownerPublicKey == pool.toForfeit[vUtxoIndex].ownerPublicKey
                   outcome    == VerifyOutcome(msg, ownerPublicKey, signature)
                   signatures == PushSignature(pool.signatures, msg, signature,
                                               ownerPublicKey, outcome)
                   remainingSigs == RemoveAt(pool.toForfeit, vUtxoIndex)
               IN  IF Len(remainingSigs) > 0
                   THEN /\ pendingPool' = MapSet(pendingPool, txID,
                               [pool EXCEPT !.signatures = signatures,
                                            !.toForfeit = remainingSigs])
                        /\ lastSend' = [call EXCEPT !.state = outcome.state,
                                                    !.reason = outcome.reason]
                        /\ UNCHANGED persisting
                   ELSE IF signOk
                   THEN \* signed and finalized: the pool leaves the map and the
                        \* repository chain starts with setPoolTransaction
                        /\ pendingPool' = MapDelete(pendingPool, txID)
                        /\ persisting' = MapSet(persisting, txID,
                               [hex |-> Hex(pool.pset), connectors |-> pool.connectors,
                                signatures |-> signatures,
                                stage |-> "setPoolTransaction", forfeitCalls |-> <<>>])
                        /\ lastSend' = [call EXCEPT !.state = outcome.state,
                                                    !.reason = outcome.reason]
                   ELSE \* wallet.sign or finalize threw: the catch block
                        /\ SignFailures(pool) < MaxSignFailures
                        /\ pendingPool' = MapSet(pendingPool, txID,
                               [pool EXCEPT !.signatures =
                                   RejectAll(signatures, "sign failed")])
                        /\ lastSend' = [call EXCEPT
                               !.state = "rejected",
                               !.reason = IF outcome.state = "rejected"
                                          THEN outcome.reason ELSE "sign failed"]
                        /\ UNCHANGED persisting
    /\ UNCHANGED <<queue, timer, building, nextTx, requests, resolveLog, repositoryVars>>
    /\ UNCHANGED <<watcherVars, built>>

\* ---------------------------------------------------------- TestRepository
setPoolTransaction(pools, txHex, connectors) ==
    MapSet(pools, TxIdOfHex(txHex), [hex |-> txHex, connectors |-> connectors])

setForfeit(forfeits, redeemScriptPubKey, forfeitMessage, signature) ==
    MapSet(forfeits, redeemScriptPubKey, [msg |-> forfeitMessage, sig |-> signature])

\* the setForfeit calls run in the order of the list; the call at position
\* `failed` (0: none) rejects and stores nothing
RECURSIVE SetForfeits(_, _, _, _)
SetForfeits(forfeits, calls, i, failed) ==
    IF i > Len(calls) THEN forfeits
    ELSE SetForfeits(
             IF i = failed THEN forfeits
             ELSE setForfeit(forfeits, calls[i].redeemScriptPubKey,
                             calls[i].msg, calls[i].signature),
             calls, i + 1, failed)

\* ------------------------------------------- the persistence chain of send()
\* a chain whose last callback runs whether or not the steps before it failed
ResolveRegardless(signatures, hex, ok, reason) == ResolveAll(signatures, hex)

\* the promises after the chain ended: .then resolves all, .catch rejects all
SettleChain(signatures, hex, ok, reason) ==
    IF ok THEN ResolveAll(signatures, hex) ELSE RejectAll(signatures, reason)

\* the setForfeit calls the first .then callback makes: signatures.map(...)
ForfeitCalls(signatures) ==
    [i \in DOMAIN signatures |->
        [redeemScriptPubKey |-> signatures[i].redeemScriptPubKey,
         msg |-> signatures[i].msg, signature |-> signatures[i].signature]]

SetPoolTransactionDone(txID, ok) ==
    /\ txID \in DOMAIN persisting
    /\ persisting[txID].stage = "setPoolTransaction"
    /\ LET p == persisting[txID]
       IN  IF ok
           THEN /\ poolTransactions' = setPoolTransaction(poolTransactions, p.hex,
                                                          p.connectors)
                /\ persisting' = [persisting EXCEPT ![txID].stage = "setForfeit",
                                     ![txID].forfeitCalls = ForfeitCalls(p.signatures)]
           ELSE /\ persisting' = [persisting EXCEPT
                       ![txID].stage = "rejected",
                       ![txID].signatures = SettleChain(p.signatures, p.hex, FALSE,
                                                        "setPoolTransaction failed")]
                /\ UNCHANGED poolTransactions
    /\ lastSend' = NoSend
    /\ UNCHANGED <<watcherVars, built>>
    /\ UNCHANGED <<queue, timer, building, pendingPool, nextTx, requests, resolveLog,
                   forfeitByScriptPubKey>>

SetForfeitDone(txID, failed) ==
    /\ txID \in DOMAIN persisting
    /\ persisting[txID].stage = "setForfeit"
    /\ LET p == persisting[txID]
       IN  /\ failed \in 0..Len(p.forfeitCalls)
           /\ forfeitByScriptPubKey' =
                  SetForfeits(forfeitByScriptPubKey, p.forfeitCalls, 1, failed)
           /\ persisting' = [persisting EXCEPT
                  ![txID].stage = IF failed = 0 THEN "resolved" ELSE "rejected",
                  ![txID].signatures = SettleChain(p.signatures, p.hex, failed = 0,
                                                   "setForfeit failed")]
    /\ lastSend' = NoSend
    /\ UNCHANGED <<watcherVars, built>>
    /\ UNCHANGED <<queue, timer, building, pendingPool, nextTx, requests, resolveLog,
                   poolTransactions>>

\* ---------------------------------------------------------- the chain
\* the txid of the redeem transaction of the vUTXO that a key holds in the
\* shared output of a lift or of a pool
RedeemTxIDs ==
    [txid \in {"L1", "L2", "P1"} |->
        [k \in Keys |->
            IF txid = "L1" THEN (IF k = "alice" THEN "R1" ELSE "R2")
            ELSE IF txid = "L2" THEN (IF k = "alice" THEN "R3" ELSE "R4")
            ELSE (IF k = "alice" THEN "R5" ELSE "R6")]]

\* the key holds a vUTXO in the shared output of that transaction: a lift it
\* took part in, or the pool transaction in which it is a stakeholder
HoldsVUtxo(vUtxoPublicKey, txid) ==
    \/ txid = "L1" /\ vUtxoPublicKey \in DOMAIN StakeL1
    \/ txid = "L2" /\ vUtxoPublicKey \in DOMAIN StakeL2
    \/ /\ built.kind = "pool"
       /\ built.error = ""
       /\ txid = built.result.vUtxo.txid
       /\ \E i \in DOMAIN built.result.stakeHolders :
              built.result.stakeHolders[i].key = vUtxoPublicKey

\* a user broadcasts the redeem transaction of one of their vUTXOs, once: its
\* output 0 pays the redeem script of the user's key
RedeemBroadcast(vUtxoPublicKey, txid) ==
    /\ Len(chainUnspents) + Len(broadcasts) < MaxRedeems
    /\ HoldsVUtxo(vUtxoPublicKey, txid)
    /\ \A j \in DOMAIN chainUnspents :
           chainUnspents[j].tx_hash # RedeemTxIDs[txid][vUtxoPublicKey]
    /\ \A j \in DOMAIN broadcasts :
           broadcasts[j].ins[2].txid # RedeemTxIDs[txid][vUtxoPublicKey]
    /\ chainUnspents' = Append(chainUnspents,
           [script  |-> redeemPath(AspPublicKey, vUtxoPublicKey).outputScript,
            tx_hash |-> RedeemTxIDs[txid][vUtxoPublicKey],
            tx_pos  |-> 0])
    /\ UNCHANGED <<managerVars, repositoryVars, chainSpent, broadcasts, watch>>

\* a listing that ignores the script: every unspent redeem output
AllUnspents(unspents, script) ==
    [i \in DOMAIN unspents |->
        [tx_hash |-> unspents[i].tx_hash, tx_pos |-> unspents[i].tx_pos]]

listUnspents(unspents, script) ==
    LET RECURSIVE Select(_)
        Select(us) == IF us = <<>> THEN <<>>
                      ELSE IF Head(us).script = script
                           THEN <<[tx_hash |-> Head(us).tx_hash,
                                   tx_pos  |-> Head(us).tx_pos]>> \o Select(Tail(us))
                           ELSE Select(Tail(us))
    IN  Select(unspents)

\* Transaction.getId(): a transaction is identified by what it spends
TxId(tx) == <<"txid", tx.ins>>

\* ------------------------------------------------- PoolWatcher.watchRedeem
\* the loop moves to the next unspent, or the run returns broadcastedTxIDs
NextUnspent(run) ==
    IF run.index >= Len(run.unspents)
    THEN [run EXCEPT !.pc = "done", !.returned = run.broadcastedTxIDs]
    ELSE [run EXCEPT !.pc = "getPoolTransaction", !.index = run.index + 1]

\* a loop body wrapped in try/catch: the error is kept and the loop goes on
SurfaceAndContinue(run, reason) == NextUnspent([run EXCEPT !.error = reason])

\* an exception inside the async function: nothing catches it, the promise of
\* the run is rejected with it
Throw(run, reason) == [run EXCEPT !.pc = "failed", !.error = reason]

\* getPoolTransaction resolved with `pool`: the connector check, then the
\* forfeit transaction is built, signed and finalized
ForfeitTx(run, pool) ==
    [ins |-> <<[txid |-> TxIdOfHex(pool.hex), txIndex |-> Head(pool.connectors)],
               [txid |-> run.unspents[run.index].tx_hash,
                txIndex |-> run.unspents[run.index].tx_pos]>>,
     witness |-> <<run.forfeit.msg, run.sig, run.forfeit.sig>>]

\* the call: redeemPath, then repository.getForfeit resolves with the entry
\* stored under the redeem script, and the ASP signs the forfeit message
WatchRedeem(r, vUtxoPublicKey) ==
    /\ watch[r].pc = "idle"
    /\ LET redeemScriptPubKey == redeemPath(AspPublicKey, vUtxoPublicKey).outputScript
           run == [watch[r] EXCEPT !.vUtxoPublicKey = vUtxoPublicKey]
       IN  watch' = [watch EXCEPT ![r] =
               IF redeemScriptPubKey \notin DOMAIN forfeitByScriptPubKey
               THEN Throw(run, "forfeit is undefined")
               ELSE LET forfeit == forfeitByScriptPubKey[redeemScriptPubKey]
                    IN  [run EXCEPT
                            !.pc = "listUnspents",
                            !.forfeit = forfeit,
                            !.sig = signSchnorr(AspPublicKey,
                                                hashForfeitMessage(forfeit.msg))]]
    /\ UNCHANGED <<managerVars, repositoryVars, chainVars>>

\* chain.listUnspents and chain.fetchTransactions resolved, or one rejected
ListUnspents(r, ok) ==
    /\ watch[r].pc = "listUnspents"
    /\ LET run == watch[r]
           redeemScriptPubKey == redeemPath(AspPublicKey, run.vUtxoPublicKey).outputScript
       IN  watch' = [watch EXCEPT ![r] =
               IF ok
               THEN NextUnspent([run EXCEPT
                        !.unspents = listUnspents(chainUnspents, redeemScriptPubKey)])
               ELSE Throw(run, "chain source failed")]
    /\ UNCHANGED <<managerVars, repositoryVars, chainVars>>

\* repository.getPoolTransaction resolved or rejected; then the synchronous
\* part of the iteration up to the call of broadcastTransaction
GetPoolTransaction(r, ok, signOk) ==
    /\ watch[r].pc = "getPoolTransaction"
    /\ LET run  == watch[r]
           txID == run.forfeit.msg.promisedPoolTxID
       IN  watch' = [watch EXCEPT ![r] =
               IF ~ok THEN Throw(run, "getPoolTransaction failed")
               ELSE IF txID \notin DOMAIN poolTransactions
               THEN Throw(run, "promisedPool is undefined")
               ELSE IF Len(poolTransactions[txID].connectors) = 0
               THEN Throw(run, "unable to forfeit, no more connector in promised pool tx")
               ELSE IF ~signOk THEN Throw(run, "sign failed")
               ELSE [run EXCEPT
                        !.pc = "broadcastTransaction",
                        !.promisedPool = poolTransactions[txID],
                        !.forfeitTx = ForfeitTx(run, poolTransactions[txID])]]
    /\ UNCHANGED <<managerVars, repositoryVars, chainVars>>

\* a chain that accepts a transaction without looking at its inputs
AcceptsAnything(tx) == TRUE

\* the chain accepts a transaction whose inputs are all unspent
Spendable(tx) ==
    /\ \A i \in DOMAIN tx.ins : tx.ins[i] \notin chainSpent
    /\ \E j \in DOMAIN chainUnspents :
           /\ chainUnspents[j].tx_hash = tx.ins[Len(tx.ins)].txid
           /\ chainUnspents[j].tx_pos = tx.ins[Len(tx.ins)].txIndex

\* chain.broadcastTransaction resolved with the txid, or rejected
BroadcastTransaction(r, ok) ==
    /\ watch[r].pc = "broadcastTransaction"
    /\ LET run == watch[r]
           tx  == run.forfeitTx
       IN  IF ok /\ Spendable(tx)
           THEN /\ broadcasts' = Append(broadcasts, tx)
                /\ chainSpent' = chainSpent \cup {tx.ins[i] : i \in DOMAIN tx.ins}
                /\ chainUnspents' = RemoveAt(chainUnspents,
                       CHOOSE j \in DOMAIN chainUnspents :
                           /\ chainUnspents[j].tx_hash = tx.ins[Len(tx.ins)].txid
                           /\ chainUnspents[j].tx_pos = tx.ins[Len(tx.ins)].txIndex)
                /\ watch' = [watch EXCEPT ![r] = [run EXCEPT !.pc = "updateConnectors"]]
           ELSE /\ watch' = [watch EXCEPT ![r] = Throw(run, "broadcast failed")]
                /\ UNCHANGED chainVars
    /\ UNCHANGED <<managerVars, repositoryVars>>

\* an update that stores nothing: the pool keeps the list it had
KeepConnectors(pools, poolID, connectors) == pools

updateConnectors(pools, poolID, connectors) ==
    [pools EXCEPT ![poolID].connectors = connectors]

\* repository.updateConnectors resolved or rejected; then the txid is pushed
\* and the loop goes on
UpdateConnectors(r, ok) ==
    /\ watch[r].pc = "updateConnectors"
    /\ LET run == watch[r]
       IN  IF ok
           THEN /\ poolTransactions' =
                       updateConnectors(poolTransactions,
                                        TxIdOfHex(run.promisedPool.hex),
                                        Tail(run.promisedPool.connectors))
                /\ watch' = [watch EXCEPT ![r] =
                       NextUnspent([run EXCEPT !.broadcastedTxIDs =
                                       Append(run.broadcastedTxIDs, TxId(run.forfeitTx))])]
           ELSE /\ watch' = [watch EXCEPT ![r] = Throw(run, "updateConnectors failed")]
                /\ UNCHANGED poolTransactions
    /\ UNCHANGED <<managerVars, forfeitByScriptPubKey, chainVars>>

\* ------------------------------------------------------ createLiftTransaction
\* a blinded coin, a coin whose asset alone is blinded, an input without witnessUtxo
BlindedCoin ==
    [witnessUtxo |-> TRUE, value |-> 0, valueConfidential |-> TRUE, assetConfidential |-> TRUE]

AssetBlindedCoin ==
    [witnessUtxo |-> TRUE, value |-> 2, valueConfidential |-> FALSE, assetConfidential |-> TRUE]

BareInput ==
    [witnessUtxo |-> FALSE, value |-> 0, valueConfidential |-> FALSE, assetConfidential |-> FALSE]

\* the sum of the coins' values, or the error thrown at the first bad coin
RECURSIVE sumInputValues(_)
sumInputValues(inputs) ==
    IF inputs = <<>> THEN [error |-> "", value |-> 0]
    ELSE IF ~Head(inputs).witnessUtxo
         THEN [error |-> "input must have witnessUtxo", value |-> 0]
    ELSE IF Head(inputs).valueConfidential
         THEN [error |-> "input must not be confidential", value |-> 0]
    ELSE LET rest == sumInputValues(Tail(inputs))
         IN  [error |-> rest.error, value |-> Head(inputs).value + rest.value]

\* the fee share rounded down
MinerFeeRoundedDown(orders, minerFee) == minerFee \div Len(orders)

\* Math.ceil(minerFee / orders.length)
MinerFeeByOrder(orders, minerFee) == (minerFee + Len(orders) - 1) \div Len(orders)

LiftedAmount(order) ==
    IF order.change # <<>>
    THEN sumInputValues(order.coins).value - order.change[1].value
    ELSE sumInputValues(order.coins).value

\* the error the loop body throws for one order, "" when it throws none
LiftOrderError(order, minerFeeByOrder) ==
    IF sumInputValues(order.coins).error # "" THEN sumInputValues(order.coins).error
    ELSE IF LiftedAmount(order) <= minerFeeByOrder THEN "order amount is too low"
    ELSE ""

\* the error of the first order that throws
LiftError(orders, minerFee) ==
    LET bad == {i \in DOMAIN orders :
                    LiftOrderError(orders[i], MinerFeeByOrder(orders, minerFee)) # ""}
    IN  IF bad = {} THEN ""
        ELSE LiftOrderError(orders[CHOOSE i \in bad : \A j \in bad : i <= j],
                            MinerFeeByOrder(orders, minerFee))

LiftStakeHolders(orders, minerFee) ==
    [i \in DOMAIN orders |->
        [key    |-> orders[i].vUtxoPublicKey,
         amount |-> LiftedAmount(orders[i]) - MinerFeeByOrder(orders, minerFee)]]

RECURSIVE LiftChanges(_)
LiftChanges(orders) ==
    IF orders = <<>> THEN <<>> ELSE Head(orders).change \o LiftChanges(Tail(orders))

RECURSIVE LiftInputs(_)
LiftInputs(orders) ==
    IF orders = <<>> THEN <<>> ELSE Head(orders).coins \o LiftInputs(Tail(orders))

\* the shared output first (unshift), the orders' changes, the miner fee last
createLiftTransaction(aspKey, orders, minerFee, txID) ==
    LET stakeHolders == LiftStakeHolders(orders, minerFee)
    IN  [unsignedPoolPset |-> txID,
         leaves |-> PoolLeaves(stakeHolders),
         vUtxo  |-> [txid |-> txID, txIndex |-> 0, value |-> SumAmounts(stakeHolders)],
         stakeHolders |-> stakeHolders,
         ins    |-> LiftInputs(orders),
         outs   |-> <<CreatorOutput(SumAmounts(stakeHolders),
                          taprootOutputScript(X_H_POINT,
                              SharedCoinLeaves(aspKey, CLAIM_TIMEOUT, stakeHolders)))>>
                        \o LiftChanges(orders)
                        \o <<CreatorOutput(MinerFeeByOrder(orders, minerFee) * Len(orders), "")>>]

\* ------------------------------------------------- the builders, called alone
\* number of orders given to one createLiftTransaction call
MaxOrders == 2

\* largest amount a transfer declares
MaxAmount == 4

MinerFees == 1..3

CoinLists ==
    {<<ExplicitCoin(3)>>, <<ExplicitCoin(2), ExplicitCoin(3)>>, <<BlindedCoin>>,
     <<ExplicitCoin(3), AssetBlindedCoin>>, <<BareInput>>}

LiftOrders ==
    [coins : CoinLists,
     change : {<<>>, <<CreatorOutput(1, "user-change")>>, <<CreatorOutput(3, "user-change")>>},
     vUtxoPublicKey : Keys]

CreateLiftTransaction(orders, minerFee) ==
    /\ built = NoBuild
    /\ built' = IF LiftError(orders, minerFee) # ""
                THEN Thrown("lift", [orders |-> orders, minerFee |-> minerFee],
                            LiftError(orders, minerFee))
                ELSE Returned("lift", [orders |-> orders, minerFee |-> minerFee],
                              createLiftTransaction(AspPublicKey, orders, minerFee, "L0"))
    /\ UNCHANGED <<queue, timer, building, pendingPool, nextTx, requests, resolveLog,
                   lastSend, persisting, repositoryVars, watcherVars>>

\* a vUTXO whose full transfer needs exactly one faucet coin
StakeL4 == [k \in {"bob"} |-> FaucetAmount - CHAIN_FEE - DUST]

\* the amount argument: left out, or a number
Amounts ==
    {[declared |-> FALSE, value |-> 0]}
        \cup {[declared |-> TRUE, value |-> v] : v \in 0..MaxAmount}

\* transfer.amount as the builder reads it: it only tests it for truthiness,
\* so a declared 0 takes the branch of a missing amount
JsAmount(amount) == IF amount.declared THEN amount.value ELSE NoAmount

BuilderTransfers ==
    {[QueuedOrder(0, e, to, NoAmount) EXCEPT !.amount = a] :
        e \in {LiftedUtxo(AspPublicKey, "L1", StakeL1, "alice"),
               LiftedUtxo(AspPublicKey, "L2", StakeL2, "alice"),
               LiftedUtxo(AspPublicKey, "L4", StakeL4, "bob")},
        to \in Keys, a \in Amounts}

AsRead(transfers) ==
    [i \in DOMAIN transfers |-> [transfers[i] EXCEPT !.amount = JsAmount(transfers[i].amount)]]

CreatePoolTransaction(transfers) ==
    /\ built = NoBuild
    /\ built' = IF AmountTooLow(AsRead(transfers))
                THEN Thrown("pool", transfers, "vUtxo amount too low")
                ELSE Returned("pool", transfers,
                              createPoolTransaction(AsRead(transfers), "P0"))
    /\ UNCHANGED <<queue, timer, building, pendingPool, nextTx, requests, resolveLog,
                   lastSend, persisting, repositoryVars, watcherVars>>

\* ------------------------------------- the entries the builders hand to users
\* leaves.set(vUtxoOwner, {vUtxoTree, redeemTree}) together with the vUtxo: the
\* entry of owner k; findLeafIncludingScript takes the first leaf of the tree
\* that includes the owner's redeem script
ExtendedVirtualUtxo(aspKey, result, k) ==
    LET leaves == SharedCoinLeaves(aspKey, CLAIM_TIMEOUT, result.stakeHolders)
        claim  == vUtxoClaimLeaf(aspKey, CLAIM_TIMEOUT)
        first  == CHOOSE i \in DOMAIN result.stakeHolders :
                      /\ result.stakeHolders[i].key = k
                      /\ \A j \in 1..(i - 1) : result.stakeHolders[j].key # k
        redeem == FrozenReceiverLeaf(k, redeemPath(aspKey, k).outputScript.program,
                      SumAmounts(result.stakeHolders) - result.stakeHolders[first].amount)
    IN  [vUtxo |-> [txid |-> result.vUtxo.txid, txIndex |-> result.vUtxo.txIndex,
                    tapInternalKey |-> X_H_POINT,
                    witnessUtxo |-> [value  |-> result.outs[1].value,
                                     script |-> result.outs[1].script]],
         vUtxoTree |-> [claimLeaf  |-> [script |-> claim,
                                        controlBlock |-> leaves \ {claim}],
                        redeemLeaf |-> [script |-> redeem,
                                        controlBlock |-> leaves \ {redeem}]],
         redeemTree |-> redeemPath(aspKey, k).redeemTree]

\* what a user may do to one leaf of an entry before presenting it
Tampers ==
    {"redeem leaf owner", "redeem claim owner", "forfeit owner", "forfeit keys swapped",
     "claim leaf owner", "claim leaf timelock", "redeem claim timelock",
     "redeem leaf witness program"}

Tampered(e, tamper) ==
    CASE tamper = "redeem leaf owner" ->
             [e EXCEPT !.vUtxoTree.redeemLeaf.script.ownerPublicKey = "mallory"]
      [] tamper = "redeem claim owner" ->
             [e EXCEPT !.redeemTree.claimLeaf.script.ownerPublicKey = "mallory"]
      [] tamper = "forfeit owner" ->
             [e EXCEPT !.redeemTree.forfeitLeaf.script.ownerPubKey = "mallory"]
      [] tamper = "forfeit keys swapped" ->
             [e EXCEPT !.redeemTree.forfeitLeaf.script.ownerPubKey =
                           e.redeemTree.forfeitLeaf.script.providerPubKey,
                       !.redeemTree.forfeitLeaf.script.providerPubKey =
                           e.redeemTree.forfeitLeaf.script.ownerPubKey]
      [] tamper = "claim leaf owner" ->
             [e EXCEPT !.vUtxoTree.claimLeaf.script.ownerPublicKey = "mallory"]
      [] tamper = "claim leaf timelock" ->
             [e EXCEPT !.vUtxoTree.claimLeaf.script.timeoutBIP68 = "bip68(1d)"]
      [] tamper = "redeem claim timelock" ->
             [e EXCEPT !.redeemTree.claimLeaf.script.timeoutBIP68 = "bip68(1d)"]
      [] tamper = "redeem leaf witness program" ->
             [e EXCEPT !.vUtxoTree.redeemLeaf.script.witnessProgram =
                           taprootWitnessProgram(X_H_POINT, {"other tree"})]
      [] OTHER -> e

\* a build that returned, and the entry a user presents to sendRequest
Presented(build, entry, tamper) ==
    [kind |-> build.kind, args |-> build.args, error |-> build.error,
     result |-> build.result, entry |-> entry, tamper |-> tamper]

\* ------------------------------------------------------------ specifications
\* the batching side of the manager: requests, the timer, the pool build
BatchNext ==
    \/ \E in \in TransferInputs : SendRequest(in[1], in[2], in[3])
    \/ \E in \in TransferInputs : SendRequestInvalid(in[1], in[2], in[3])
    \/ TimerFire
    \/ \E orders \in building : PoolBuilt(orders)
    \/ \E orders \in building : PoolBuildFails(orders)

BatchSpec == Init /\ [][BatchNext]_vars

\* the signature side of the manager, from the moment the timer fired on a
\* batch of accepted requests: the pool build, send() and the repository chain
\* send() reads the outpoint and the owner key of an order, never its amount
\* or its receiver: one transfer per vUTXO is enough
AcceptedInputs ==
    {in \in TransferInputs : validate(in[1]) = "ok" /\ in[3] = NoAmount}

Batches == UNION {[1..n -> AcceptedInputs] : n \in 1..MaxRequests}

SignInit ==
    \E batch \in Batches :
        /\ queue = <<>>
        /\ timer = FALSE
        /\ building = {[i \in DOMAIN batch |->
                          QueuedOrder(i, batch[i][1], batch[i][2], batch[i][3])]}
        /\ pendingPool = <<>>
        /\ nextTx = 0
        /\ requests = [i \in DOMAIN batch |->
                          RequestRecord(batch[i][1], batch[i][2], batch[i][3])]
        /\ resolveLog = <<>>
        /\ lastSend = NoSend
        /\ persisting = <<>>
        /\ poolTransactions = <<>>
        /\ forfeitByScriptPubKey = <<>>
        /\ chainUnspents = <<>>
        /\ chainSpent = {}
        /\ broadcasts = <<>>
        /\ watch = [r \in Runs |-> IdleRun]
        /\ built = NoBuild

SignNext ==
    \/ \E orders \in building : PoolBuilt(orders)
    \/ \E orders \in building : PoolBuildFails(orders)
    \/ \E msg \in SendMessages, k \in Keys, signOk \in BOOLEAN :
           Send(msg, signSchnorr(k, hashForfeitMessage(msg)), signOk)
    \/ \E txID \in DOMAIN persisting, ok \in BOOLEAN : SetPoolTransactionDone(txID, ok)
    \/ \E txID \in DOMAIN persisting, failed \in 0..(MaxRequests + MaxSignFailures) :
           SetForfeitDone(txID, failed)

SignSpec == SignInit /\ [][SignNext]_vars

\* the watcher, from a repository that holds one finalized pool: the pool of a
\* batch whose owners all signed their forfeit message, in the order of the batch
BuildableBatches ==
    {batch \in Batches :
        ~AmountTooLow([i \in DOMAIN batch |->
                          QueuedOrder(i, batch[i][1], batch[i][2], batch[i][3])])}

CollectedForfeits(orders, txID) ==
    [i \in DOMAIN orders |->
        [redeemScriptPubKey |->
             redeemPath(AspPublicKey, orders[i].signerPublicKey).outputScript,
         msg |-> ForfeitMessageOf(orders[i], txID),
         signature |-> signSchnorr(orders[i].signerPublicKey,
                                   hashForfeitMessage(ForfeitMessageOf(orders[i], txID)))]]

\* the chain send() started for that pool, after its last callback resolved
\* every collected promise with the pool's hex
ResolvedChain(orders, txID) ==
    LET calls == CollectedForfeits(orders, txID)
    IN  [hex |-> Hex(txID), connectors |-> ConnectorsIndexes(orders),
         signatures |-> [i \in DOMAIN calls |->
                            [msg |-> calls[i].msg, signature |-> calls[i].signature,
                             redeemScriptPubKey |-> calls[i].redeemScriptPubKey,
                             state |-> "resolved", reason |-> "", value |-> Hex(txID)]],
         stage |-> "resolved", forfeitCalls |-> calls]

\* the batches of the finalized pool the watcher starts from: one order per
\* vUTXO
WatchedBatches ==
    {batch \in BuildableBatches :
        \A i \in DOMAIN batch : \A j \in DOMAIN batch :
            batch[i][1] = batch[j][1] => i = j}

WatchInit ==
    \E batch \in WatchedBatches :
        LET orders == [i \in DOMAIN batch |->
                          QueuedOrder(i, batch[i][1], batch[i][2], batch[i][3])]
            txID   == PoolTxIDs[1]
        IN  /\ queue = <<>>
            /\ timer = FALSE
            /\ building = {}
            /\ pendingPool = <<>>
            /\ nextTx = 1
            /\ requests = <<>>
            /\ resolveLog = <<>>
            /\ lastSend = NoSend
            /\ persisting = MapSet(<<>>, txID, ResolvedChain(orders, txID))
            /\ poolTransactions = setPoolTransaction(<<>>, Hex(txID),
                                                     ConnectorsIndexes(orders))
            /\ forfeitByScriptPubKey =
                   SetForfeits(<<>>, CollectedForfeits(orders, txID), 1, 0)
            /\ chainUnspents = <<>>
            /\ chainSpent = {}
            /\ broadcasts = <<>>
            /\ watch = [r \in Runs |-> IdleRun]
            /\ built = Returned("pool", orders, createPoolTransaction(orders, txID))

WatchNext ==
    \/ \E k \in Keys, txid \in {"L1", "L2", "P1"} : RedeemBroadcast(k, txid)
    \/ \E r \in Runs, k \in Keys : WatchRedeem(r, k)
    \/ \E r \in Runs, ok \in BOOLEAN : ListUnspents(r, ok)
    \/ \E r \in Runs, ok \in BOOLEAN, signOk \in BOOLEAN : GetPoolTransaction(r, ok, signOk)
    \/ \E r \in Runs, ok \in BOOLEAN : BroadcastTransaction(r, ok)
    \/ \E r \in Runs, ok \in BOOLEAN : UpdateConnectors(r, ok)

WatchSpec == WatchInit /\ [][WatchNext]_vars

\* the transaction builders as pure functions of their arguments
BuildNext ==
    \/ /\ built = NoBuild
       /\ \E orders \in UNION {[1..n -> LiftOrders] : n \in 1..MaxOrders},
             minerFee \in MinerFees : CreateLiftTransaction(orders, minerFee)
    \/ /\ built = NoBuild
       /\ \E transfers \in UNION {[1..n -> BuilderTransfers] : n \in 1..MaxRequests} :
              CreatePoolTransaction(transfers)

BuildSpec == Init /\ [][BuildNext]_vars

\* validation of what the builders return: lifts of unblinded coins and pools
\* of transfers, the entry of one owner, presented as built or with one leaf
\* tampered, to at most two sendRequest() calls
ValidatedLifts ==
    {Returned("lift", [orders |-> orders, minerFee |-> 1],
              createLiftTransaction(AspPublicKey, orders, 1, "L0")) :
        orders \in UNION {[1..n -> [coins : {<<ExplicitCoin(3)>>,
                                             <<ExplicitCoin(2), ExplicitCoin(3)>>},
                                    change : {<<>>},
                                    vUtxoPublicKey : Keys]] : n \in 1..MaxOrders}}

ValidatedPools ==
    {Returned("pool", transfers, createPoolTransaction(transfers, "P0")) :
        transfers \in UNION {[1..n ->
            {QueuedOrder(0, LiftedUtxo(AspPublicKey, "L1", StakeL1, "alice"), "bob", 2),
             QueuedOrder(0, LiftedUtxo(AspPublicKey, "L2", StakeL2, "alice"), "alice",
                         NoAmount)}] : n \in 1..MaxOrders}}

ValidateInit ==
    \E build \in ValidatedLifts \cup ValidatedPools :
       \E k \in DOMAIN build.result.leaves, tamper \in Tampers \cup {"none"} :
        /\ queue = <<>>
        /\ timer = FALSE
        /\ building = {}
        /\ pendingPool = <<>>
        /\ nextTx = 0
        /\ requests = <<>>
        /\ resolveLog = <<>>
        /\ lastSend = NoSend
        /\ persisting = <<>>
        /\ poolTransactions = <<>>
        /\ forfeitByScriptPubKey = <<>>
        /\ chainUnspents = <<>>
        /\ chainSpent = {}
        /\ broadcasts = <<>>
        /\ watch = [r \in Runs |-> IdleRun]
        /\ built = Presented(build,
                       Tampered(ExtendedVirtualUtxo(AspPublicKey, build.result, k), tamper),
                       tamper)

ValidateNext ==
    \/ \E to \in Keys : Len(requests) <= 1 /\ SendRequest(built.entry, to, NoAmount)
    \/ \E to \in Keys : Len(requests) <= 1 /\ SendRequestInvalid(built.entry, to, NoAmount)
    \/ TimerFire

ValidateSpec == ValidateInit /\ [][ValidateNext]_vars

\* ------------------------------------------------- properties: the batching
\* the elements of a set of request ids, smallest first: the enqueue order
Ascending(ids) ==
    [i \in 1..Cardinality(ids) |->
        CHOOSE x \in ids : Cardinality({y \in ids : y < x}) = i - 1]

\* the requests accepted since the timer was armed: pending, in no batch yet
Window == {i \in DOMAIN requests :
              /\ requests[i].state = "pending"
              /\ \A orders \in building : i \notin OrderIds(orders)}

OwnForfeitMessage(i, txID) ==
    [vUtxoTxID |-> requests[i].vUtxo.txid, vUtxoIndex |-> requests[i].vUtxo.txIndex,
     promisedPoolTxID |-> txID]

\* C4: every request accepted between the arming of the timer and its firing
\* is in the one batch the timer hands to processSendOrders; when the pool of
\* a batch is built, its txid T is a key of the pending-pool map, every
\* promise of the batch resolves with the forfeit message (own vUtxo txid,
\* own vUtxo index, T), and the promises resolve in enqueue order.
C4_OneBatchOnePool ==
    [][ /\ (timer /\ ~timer') =>
               /\ OrderIds(queue) = Window
               /\ building' = building \cup {queue}
               /\ queue' = <<>>
        /\ (nextTx' = nextTx + 1) =>
               \E orders \in building :
                   LET T == PoolTxIDs[nextTx'] IN
                   /\ building' = building \ {orders}
                   /\ T \notin DOMAIN pendingPool
                   /\ T \in DOMAIN pendingPool'
                   /\ \A id \in OrderIds(orders) :
                          /\ requests[id].state = "pending"
                          /\ requests'[id].state = "resolved"
                          /\ requests'[id].value.forfeitMessage = OwnForfeitMessage(id, T)
                   /\ resolveLog' = resolveLog \o Ascending(OrderIds(orders))
      ]_vars

\* C4 witness: two requests of one window were resolved with the same pool txid
C4_Witness ==
    /\ Len(requests) = 2
    /\ requests[1].state = "resolved" /\ requests[2].state = "resolved"
    /\ requests[1].txID = requests[2].txID
    /\ requests[1].vUtxo # requests[2].vUtxo
    /\ resolveLog = <<1, 2>>

\* C5: the changeUtxo a request resolves with is defined exactly when the
\* request declares an amount strictly below its vUTXO amount (a change
\* stakeholder was synthesized for it), whatever else is in the batch, and
\* then its redeem leaf is owned by the sender.
C5_ChangeIffPartial ==
    \A i \in DOMAIN requests :
        requests[i].state = "resolved" =>
            LET partial == /\ requests[i].amount # NoAmount
                           /\ requests[i].amount < requests[i].coinValue
                change  == requests[i].value.changeUtxo
            IN  /\ change.defined <=> partial
                /\ partial => change.redeemLeafOwner = requests[i].owner

\* C6: when the pool build of a batch fails, every promise of the batch is
\* rejected with the same error and none is resolved, the pending-pool map
\* gets no entry, and the promises of the other requests are left as they were.
C6_BuildFailureRejectsBatch ==
    [][ \A orders \in building :
            (building' = building \ {orders} /\ nextTx' = nextTx) =>
                /\ \E e \in {"vUtxo amount too low", "coin selection failed"} :
                       \A id \in OrderIds(orders) :
                           /\ requests[id].state = "pending"
                           /\ requests'[id].state = "rejected"
                           /\ requests'[id].reason = e
                           /\ requests'[id].txID = ""
                /\ pendingPool' = pendingPool
                /\ \A id \in DOMAIN requests \ OrderIds(orders) :
                       requests'[id] = requests[id]
      ]_vars

\* C6 witness: a batch of two was rejected as a whole
C6_Witness ==
    /\ Len(requests) = 2
    /\ requests[1].state = "rejected" /\ requests[2].state = "rejected"
    /\ requests[1].reason = requests[2].reason
    /\ requests[1].reason # ""
    /\ pendingPool = <<>>

\* ------------------------------------------ properties: signature collection
\* the requests whose promise resolved with pool txID, in enqueue order
OrdersOfPool(txID) == {i \in DOMAIN requests : requests[i].txID = txID}

\* the send() call of the last step was made for a pool of the pending map
\* and found a toForfeit entry with the outpoint of its message
HasEntry(pools, msg) ==
    /\ msg.promisedPoolTxID \in DOMAIN pools
    /\ \E i \in DOMAIN pools[msg.promisedPoolTxID].toForfeit :
           /\ pools[msg.promisedPoolTxID].toForfeit[i].txID = msg.vUtxoTxID
           /\ pools[msg.promisedPoolTxID].toForfeit[i].txIndex = msg.vUtxoIndex

\* C1: a pool is handed to the repository chain only once every order of its
\* batch has supplied a signature that verifies under the order's owner key
\* over the hash of its forfeit message, and every signature given to
\* setForfeit verifies under the owner key of an order of the pool with the
\* message's outpoint.
C1_OnlyVerifiedSignaturesPersisted ==
    \A txID \in DOMAIN persisting :
        LET p == persisting[txID] IN
        /\ \A i \in OrdersOfPool(txID) :
               \E j \in DOMAIN p.signatures :
                   /\ p.signatures[j].msg = OwnForfeitMessage(i, txID)
                   /\ verifySchnorr(hashForfeitMessage(p.signatures[j].msg),
                                    requests[i].owner, p.signatures[j].signature)
        /\ \A c \in DOMAIN p.forfeitCalls :
               \E i \in OrdersOfPool(txID) :
                   /\ p.forfeitCalls[c].msg = OwnForfeitMessage(i, txID)
                   /\ verifySchnorr(hashForfeitMessage(p.forfeitCalls[c].msg),
                                    requests[i].owner, p.forfeitCalls[c].signature)

\* C2: a send() rejected for an invalid signature leaves the pending-pool map
\* (toForfeit, signatures, presence of the pool) and the repository as they were.
C2_InvalidSignatureChangesNothing ==
    [][ (lastSend' # NoSend /\ lastSend'.reason = "invalid signature") =>
            UNCHANGED <<pendingPool, persisting, repositoryVars>>
      ]_vars

\* C3: setForfeit is called only once setPoolTransaction has stored the pool,
\* once per collected signature; the send() promises of a pool resolve only
\* when the whole chain succeeded, all with the pool hex; when signing or a
\* repository step fails, every promise of the pool is rejected and none resolved.
C3_PersistThenResolve ==
    /\ \A txID \in DOMAIN pendingPool :
           \A i \in DOMAIN pendingPool[txID].signatures :
               pendingPool[txID].signatures[i].state # "resolved"
    /\ (lastSend.reason = "sign failed") =>
           \A i \in DOMAIN pendingPool[lastSend.msg.promisedPoolTxID].signatures :
               pendingPool[lastSend.msg.promisedPoolTxID].signatures[i].state = "rejected"
    /\ \A txID \in DOMAIN persisting :
           LET p == persisting[txID] IN
           /\ (p.forfeitCalls # <<>>) =>
                  /\ txID \in DOMAIN poolTransactions
                  /\ poolTransactions[txID] = [hex |-> p.hex, connectors |-> p.connectors]
           /\ (txID \notin DOMAIN poolTransactions) => p.forfeitCalls = <<>>
           /\ (p.stage \in {"setForfeit", "resolved"}) =>
                  /\ Len(p.forfeitCalls) = Len(p.signatures)
                  /\ \A i \in DOMAIN p.signatures :
                         /\ p.forfeitCalls[i].msg = p.signatures[i].msg
                         /\ p.forfeitCalls[i].signature = p.signatures[i].signature
           /\ \A i \in DOMAIN p.signatures :
                  (p.signatures[i].state = "resolved") =>
                      /\ p.stage = "resolved"
                      /\ p.signatures[i].value = p.hex
                      /\ \A c \in DOMAIN p.forfeitCalls :
                             p.forfeitCalls[c].redeemScriptPubKey
                                 \in DOMAIN forfeitByScriptPubKey
           /\ (p.stage = "resolved") =>
                  \A i \in DOMAIN p.signatures :
                      \/ p.signatures[i].state = "resolved"
                      \/ p.signatures[i].reason \in {"invalid signature", "sign failed"}
           /\ (p.stage = "rejected") =>
                  \A i \in DOMAIN p.signatures : p.signatures[i].state = "rejected"

\* C3 witness: the chain of a pool of two orders succeeded and both send()
\* promises resolved with the pool hex
C3_Witness ==
    \E txID \in DOMAIN persisting :
        /\ persisting[txID].stage = "resolved"
        /\ Len(persisting[txID].signatures) = 2
        /\ \A i \in DOMAIN persisting[txID].signatures :
               /\ persisting[txID].signatures[i].state = "resolved"
               /\ persisting[txID].signatures[i].value = Hex(txID)

\* C7: a send() that is accepted removes exactly one toForfeit entry of its
\* pool, and nothing else changes toForfeit; the pool stays in the map while
\* entries remain, and it is finalized (removed and handed to the repository
\* chain) by the accepted send() that removes the last entry, and only by it.
C7_OneEntryPerAcceptedSend ==
    [][ \A txID \in DOMAIN pendingPool :
            LET before   == pendingPool[txID].toForfeit
                accepted == /\ lastSend' # NoSend
                            /\ lastSend'.msg.promisedPoolTxID = txID
                            /\ lastSend'.state = "pending"
            IN  IF accepted /\ Len(before) > 1
                THEN /\ txID \in DOMAIN pendingPool'
                     /\ txID \notin DOMAIN persisting'
                     /\ \E i \in DOMAIN before :
                            pendingPool'[txID].toForfeit = RemoveAt(before, i)
                ELSE IF accepted
                THEN /\ txID \notin DOMAIN pendingPool'
                     /\ txID \in DOMAIN persisting'
                ELSE /\ txID \in DOMAIN pendingPool'
                     /\ txID \notin DOMAIN persisting'
                     /\ pendingPool'[txID].toForfeit = before
      ]_vars

\* the forfeits of a pool as the repository holds them when the owners'
\* signatures arrive in the order of the batch
BatchOrderForfeits(txID) ==
    [i \in DOMAIN requests |->
        [redeemScriptPubKey |-> redeemPath(AspPublicKey, requests[i].owner).outputScript,
         msg |-> OwnForfeitMessage(i, txID),
         signature |-> signSchnorr(requests[i].owner,
                                   hashForfeitMessage(OwnForfeitMessage(i, txID)))]]

\* C8: once the k valid send() calls of a pool have arrived, in whatever
\* order, and the chain has succeeded, the outcome is the one of the batch
\* order: every caller resolved with the pool hex, the pool stored with its
\* connectors, and the same forfeit entries stored.
C8_ArrivalOrderIrrelevant ==
    \A txID \in DOMAIN persisting :
        LET p == persisting[txID] IN
        (/\ p.stage = "resolved"
         /\ OrdersOfPool(txID) = DOMAIN requests
         /\ Len(p.signatures) = Len(requests)
         /\ \A j \in DOMAIN p.signatures : p.signatures[j].state = "resolved")
        => /\ \A j \in DOMAIN p.signatures : p.signatures[j].value = Hex(txID)
           /\ poolTransactions[txID] =
                  [hex |-> Hex(txID), connectors |-> [i \in DOMAIN requests |-> i + 1]]
           /\ forfeitByScriptPubKey = SetForfeits(<<>>, BatchOrderForfeits(txID), 1, 0)

\* a repeat: the message and signature are those of an entry of the pool's
\* signatures whose promise was not rejected (a send() that was accepted), and
\* they are not also the forfeit of an order that still waits in toForfeit
RepeatOfAccepted(pools, msg, signature) ==
    /\ msg.promisedPoolTxID \in DOMAIN pools
    /\ \E i \in DOMAIN pools[msg.promisedPoolTxID].signatures :
           /\ pools[msg.promisedPoolTxID].signatures[i].msg = msg
           /\ pools[msg.promisedPoolTxID].signatures[i].signature = signature
           /\ pools[msg.promisedPoolTxID].signatures[i].state = "pending"
    /\ ~\E i \in DOMAIN pools[msg.promisedPoolTxID].toForfeit :
           /\ pools[msg.promisedPoolTxID].toForfeit[i].txID = msg.vUtxoTxID
           /\ pools[msg.promisedPoolTxID].toForfeit[i].txIndex = msg.vUtxoIndex
           /\ verifySchnorr(hashForfeitMessage(msg),
                            pools[msg.promisedPoolTxID].toForfeit[i].ownerPublicKey,
                            signature)

\* C9: a send() for which the pending map holds no pool (a finalized pool
\* included), or whose pool has no toForfeit entry with the outpoint of the
\* message, or that repeats a forfeit message that was accepted, is rejected
\* and leaves the pending-pool map, the repository chain and the repository
\* as they were.
C9_RejectedWithoutEffect ==
    [][ (/\ lastSend' # NoSend
         /\ \/ ~HasEntry(pendingPool, lastSend'.msg)
            \/ RepeatOfAccepted(pendingPool, lastSend'.msg, lastSend'.signature)) =>
            /\ lastSend'.state = "rejected"
            /\ UNCHANGED <<pendingPool, persisting, repositoryVars>>
      ]_vars

\* ---------------------------------------------------- properties: the watcher
\* C10 as stated: a failure on one unspent does not stop the run, so a run
\* that has ended has handled every unspent of its list and has returned the
\* txid of every forfeit transaction it broadcast.
C10_FailureDoesNotStopRun ==
    \A r \in Runs :
        (watch[r].pc \in {"done", "failed"} /\ watch[r].index >= 1) =>
            /\ watch[r].index = Len(watch[r].unspents)
            /\ watch[r].returned = watch[r].broadcastedTxIDs

\* C10 amended: a failure while handling one unspent rejects the whole run
\* with that error: the run stops there, handles no later unspent and returns
\* no txid, those of the forfeit transactions it already broadcast included.
C10_FailureStopsRun ==
    [][ \A r \in Runs :
            (watch'[r].error # "") =>
                /\ watch'[r].pc = "failed"
                /\ watch'[r].returned = <<>>
                /\ (watch[r].error # "") => watch'[r] = watch[r]
      ]_vars

\* C10 witness: one run failed on the first of two unspents, another failed
\* after it had broadcast a forfeit transaction
C10_Witness ==
    /\ \E r \in Runs :
           /\ watch[r].pc = "failed"
           /\ watch[r].index = 1
           /\ Len(watch[r].unspents) = 2
    /\ \E r \in Runs :
           /\ watch[r].pc = "failed"
           /\ watch[r].index = 2
           /\ Len(watch[r].broadcastedTxIDs) = 1

\* the forfeit transactions broadcast against pool txID, oldest first
ForfeitsAgainst(txID) ==
    LET Against(tx) == tx.ins[1].txid = txID
    IN  SelectSeq(broadcasts, Against)

\* the list without its first k elements: Array.slice(k)
Drop(c, k) == SubSeq(c, k + 1, Len(c))

\* a forfeit transaction was broadcast and the repository has not stored the
\* shorter list: the run is inside updateConnectors, or the call was rejected
UpdateOutstanding ==
    \E r \in Runs : \/ watch[r].pc = "updateConnectors"
                    \/ watch[r].error = "updateConnectors failed"

\* the connector list of every stored pool after k forfeits against it
ConnectorsInOrder ==
    \A txID \in DOMAIN poolTransactions :
        LET c == persisting[txID].connectors
            k == Len(ForfeitsAgainst(txID))
        IN  /\ k <= Len(c)
            /\ \A i \in 1..k : ForfeitsAgainst(txID)[i].ins[1].txIndex = c[i]
            /\ poolTransactions[txID].connectors =
                   IF UpdateOutstanding THEN Drop(c, k - 1) ELSE Drop(c, k)

\* C11: every forfeit transaction spends, as input 0, the connector at the head
\* of the promised pool's stored list; the stored list changes only to its
\* tail, and only once the forfeit transaction spending its head is broadcast;
\* a failed broadcast leaves it unchanged; after k forfeits against a pool
\* stored with connectors c the connectors spent are c[0..k-1] in that order
\* and, once the k-th update is stored, the list is c[k..].
C11_ConnectorsConsumedInOrder ==
    [][ /\ \A txID \in DOMAIN poolTransactions :
               LET before == poolTransactions[txID].connectors
                   after  == poolTransactions'[txID].connectors
               IN  /\ Len(broadcasts') > Len(broadcasts) =>
                          /\ broadcasts'[Len(broadcasts')].ins[1] =
                                 [txid |-> txID, txIndex |-> Head(before)]
                          /\ after = before
                   /\ after # before =>
                          /\ after = Tail(before)
                          /\ \E i \in DOMAIN broadcasts :
                                 broadcasts[i].ins[1] =
                                     [txid |-> txID, txIndex |-> Head(before)]
        /\ \A r \in Runs :
               (watch[r].pc = "broadcastTransaction" /\ watch'[r].pc = "failed") =>
                   UNCHANGED <<poolTransactions, broadcasts>>
        /\ ConnectorsInOrder'
      ]_vars

\* C11 witness: two forfeits against a pool stored with two connectors, both
\* updates stored, the list is empty
C11_Witness ==
    \E txID \in DOMAIN poolTransactions :
        /\ Len(persisting[txID].connectors) = 2
        /\ Len(ForfeitsAgainst(txID)) = 2
        /\ ~UpdateOutstanding
        /\ poolTransactions[txID].connectors = <<>>

\* C12: a run that reaches an unspent while the promised pool's stored list is
\* empty fails with the no-more-connector error (or with the repository's own
\* error when the read is rejected), broadcasts nothing and leaves the
\* repository as it was; no pool stored with N connectors ever has more than N
\* forfeit transactions broadcast against it.
C12_NoConnectorNoForfeit ==
    [][ /\ \A r \in Runs :
               (/\ watch[r].pc = "getPoolTransaction"
                /\ watch'[r] # watch[r]
                /\ watch[r].forfeit.msg.promisedPoolTxID \in DOMAIN poolTransactions
                /\ poolTransactions[watch[r].forfeit.msg.promisedPoolTxID].connectors = <<>>)
               => /\ watch'[r].pc = "failed"
                  /\ watch'[r].error \in
                         {"unable to forfeit, no more connector in promised pool tx",
                          "getPoolTransaction failed"}
                  /\ UNCHANGED <<chainVars, repositoryVars>>
        /\ \A txID \in DOMAIN poolTransactions' :
               Len(ForfeitsAgainst(txID)') <= Len(persisting'[txID].connectors)
      ]_vars

\* C12 witness: a pool stored with one connector, one forfeit broadcast against
\* it, and a later run stopped by the no-more-connector error on an unspent
C12_Witness ==
    \E txID \in DOMAIN poolTransactions, r \in Runs :
        /\ Len(persisting[txID].connectors) = 1
        /\ Len(ForfeitsAgainst(txID)) = 1
        /\ watch[r].pc = "failed"
        /\ watch[r].index >= 1
        /\ watch[r].error = "unable to forfeit, no more connector in promised pool tx"

\* the outpoint of an entry of a run's unspents list
OutpointOf(unspent) == [txid |-> unspent.tx_hash, txIndex |-> unspent.tx_pos]

\* a forfeit transaction: two inputs, input 0 a connector of the pool the
\* forfeit message in its witness promises
SpendsConnector(tx) ==
    /\ Len(tx.ins) = 2
    /\ tx.ins[1].txid = tx.witness[1].promisedPoolTxID
    /\ tx.ins[1].txid \in DOMAIN poolTransactions
    /\ \E i \in DOMAIN persisting[tx.ins[1].txid].connectors :
           tx.ins[1].txIndex = persisting[tx.ins[1].txid].connectors[i]

\* a run that returned: one txid per unspent of its list, in the order of the
\* list, each the id of a broadcast forfeit transaction made from the stored
\* forfeit of the watched key and spending that unspent as input 1
OneForfeitPerUnspent(run) ==
    /\ Len(run.returned) = Len(run.unspents)
    /\ \A i \in DOMAIN run.unspents :
           \E j \in DOMAIN broadcasts :
               /\ run.returned[i] = TxId(broadcasts[j])
               /\ broadcasts[j].ins[2] = OutpointOf(run.unspents[i])
               /\ broadcasts[j].witness[1] = run.forfeit.msg
               /\ run.forfeit = forfeitByScriptPubKey[
                      redeemPath(AspPublicKey, run.vUtxoPublicKey).outputScript]
    /\ \A i, j \in DOMAIN run.returned : run.returned[i] = run.returned[j] => i = j

\* every broadcast transaction is a forfeit transaction; the runs that returned
\* returned one txid per unspent, the others returned nothing
ForfeitsWellFormed ==
    /\ \A j \in DOMAIN broadcasts : SpendsConnector(broadcasts[j])
    /\ \A r \in Runs : watch[r].pc = "done" => OneForfeitPerUnspent(watch[r])
    /\ \A r \in Runs : watch[r].pc # "done" => watch[r].returned = <<>>

C14_TamperedLeafRejected ==
    [][ (built.tamper # "none" /\ Len(requests') > Len(requests)) =>
            /\ requests'[Len(requests')].state = "thrown"
            /\ UNCHANGED <<queue, timer, building, pendingPool>>
      ]_vars

\* the three facts validation rests on, for the entry as built
TreesAgree(e) ==
    LET root == computeMerkleRoot(e.vUtxoTree.redeemLeaf.controlBlock,
                                  e.vUtxoTree.redeemLeaf.script)
        rootFromClaim == computeMerkleRoot(e.vUtxoTree.claimLeaf.controlBlock,
                                           e.vUtxoTree.claimLeaf.script)
    IN  /\ root = rootFromClaim
        /\ taprootWitnessProgram(X_H_POINT, root) = e.vUtxo.witnessUtxo.script.program
        /\ e.vUtxoTree.redeemLeaf.script.witnessProgram =
               taprootWitnessProgram(X_H_POINT, e.redeemTree.tree.hash)

ExpectedStakeholders(transfer) ==
    LET coinValue == transfer.vUtxo.value - transfer.redeemLeaf.shared
    IN  <<[key    |-> transfer.toPublicKey,
           amount |-> IF transfer.amount.declared THEN transfer.amount.value
                      ELSE coinValue]>>
        \o (IF transfer.amount.declared /\ transfer.amount.value < coinValue
            THEN <<[key    |-> transfer.redeemLeaf.ownerPublicKey,
                    amount |-> coinValue - transfer.amount.value]>>
            ELSE <<>>)

RECURSIVE ExpectedOfAll(_)
ExpectedOfAll(transfers) ==
    IF transfers = <<>> THEN <<>>
    ELSE ExpectedStakeholders(Head(transfers)) \o ExpectedOfAll(Tail(transfers))

DeclaredAbove(transfers) ==
    \E i \in DOMAIN transfers :
        /\ transfers[i].amount.declared
        /\ transfers[i].amount.value >
               transfers[i].vUtxo.value - transfers[i].redeemLeaf.shared

\* C16: createPoolTransaction gives the recipient the declared amount, or the
\* sender's vUTXO amount when none is declared; it adds a change stakeholder
\* under the sender's key, carrying the remainder, exactly when the declared
\* amount is strictly below the vUTXO amount, so that the two add up to the
\* vUTXO amount; it throws exactly when a declared amount is above it.
C16_RecipientAndChange ==
    built.kind = "pool" =>
        /\ built.error # "" <=> DeclaredAbove(built.args)
        /\ built.error = "" =>
               /\ built.result.stakeHolders = ExpectedOfAll(built.args)
               /\ \A i \in DOMAIN built.args :
                      SumAmounts(ExpectedStakeholders(built.args[i])) =
                          built.args[i].vUtxo.value - built.args[i].redeemLeaf.shared

\* the outputs of a pool transaction built from n transfers: shared output,
\* miner fee, n connectors of DUST paying the ASP change script, then at most
\* one change output; positions are counted from 0 in the code, from 1 here
PoolLayout(result, n) ==
    /\ Len(result.outs) \in {n + 2, n + 3}
    /\ result.outs[1].script = taprootOutputScript(X_H_POINT,
           SharedCoinLeaves(AspPublicKey, CLAIM_TIMEOUT, result.stakeHolders))
    /\ result.outs[2] = CreatorOutput(CHAIN_FEE, "")
    /\ \A i \in 3..(n + 2) : result.outs[i] = CreatorOutput(DUST, ChangeScriptPubKey)
    /\ result.connectors = [i \in 1..n |-> i + 1]
    /\ \A i \in DOMAIN result.connectors :
           result.outs[result.connectors[i] + 1] = CreatorOutput(DUST, ChangeScriptPubKey)
    /\ Len(result.outs) = n + 3 =>
           /\ result.outs[n + 3].script = ChangeScriptPubKey
           /\ result.outs[n + 3].value > 0

\* C17: a pool transaction built from N transfers has the shared output at 0,
\* the miner fee at 1, N connectors of DUST paying the ASP change script at
\* 2..N+1 and the ASP change, if any, after them; the connectors returned are
\* [2, ..., N+1]; every pending pool holds as many connectors as it has orders.
C17_PoolLayout ==
    /\ (built.kind = "pool" /\ built.error = "") =>
           PoolLayout(built.result, Len(built.args))
    /\ \A txID \in DOMAIN pendingPool :
           /\ pendingPool[txID].connectors =
                  [i \in 1..Cardinality(OrdersOfPool(txID)) |-> i + 1]
           /\ Len(pendingPool[txID].connectors) =
                  Len(pendingPool[txID].toForfeit) + Len(pendingPool[txID].signatures)

\* C17 witness: a pool of two transfers was built and is pending with the
\* connectors 2 and 3
C17_Witness ==
    /\ built.kind = "pool"
    /\ Len(built.args) = 2
    /\ Len(built.result.outs) = 5
    /\ \E txID \in DOMAIN pendingPool : pendingPool[txID].connectors = <<2, 3>>

RECURSIVE SumValues(_)
SumValues(coinsOrOutputs) ==
    IF coinsOrOutputs = <<>> THEN 0
    ELSE Head(coinsOrOutputs).value + SumValues(Tail(coinsOrOutputs))

\* the least share whose n-fold covers the miner fee: ceil(minerFee / n)
FeeShare(minerFee, n) ==
    CHOOSE share \in 0..minerFee : share * n >= minerFee /\ (share - 1) * n < minerFee

\* what an order lifts: its coins less its change
Lifted(order) == SumValues(order.coins) - SumValues(order.change)

ReadableCoins(order) ==
    \A i \in DOMAIN order.coins :
        order.coins[i].witnessUtxo /\ ~order.coins[i].valueConfidential

RECURSIVE SumLifted(_, _)
SumLifted(orders, share) ==
    IF orders = <<>> THEN 0
    ELSE Lifted(Head(orders)) - share + SumLifted(Tail(orders), share)

\* C18: output 0 of every built lift and pool carries the sum of the amounts
\* of the stakeholders of its shared tree; a lift's output 0 is the sum over
\* its orders of inputs - change - fee share, its fee output is
\* ceil(minerFee / n) * n, its inputs and outputs balance, and a lift with an
\* order whose lifted amount is not above the fee share is rejected.
C18_SharedOutputIsSumOfStakes ==
    /\ (built.kind \in {"lift", "pool"} /\ built.error = "") =>
           built.result.outs[1].value = SumAmounts(built.result.stakeHolders)
    /\ built.kind = "lift" =>
           LET orders == built.args.orders
               n      == Len(orders)
               share  == FeeShare(built.args.minerFee, n)
           IN  /\ built.error = "" =>
                      /\ built.result.outs[1].value = SumLifted(orders, share)
                      /\ built.result.outs[Len(built.result.outs)] =
                             CreatorOutput(share * n, "")
                      /\ SumValues(built.result.ins) = SumValues(built.result.outs)
                      /\ \A i \in DOMAIN orders : Lifted(orders[i]) > share
               /\ (\E i \in DOMAIN orders :
                       /\ \A j \in 1..i : ReadableCoins(orders[j])
                       /\ Lifted(orders[i]) <= share) => built.error # ""
               /\ built.error = "order amount is too low" =>
                      \E i \in DOMAIN orders : Lifted(orders[i]) <= share

\* C18 witness: a lift of two orders, one with a change, built with a miner
\* fee of 3 that two orders cannot share evenly
C18_Witness ==
    /\ built.kind = "lift"
    /\ built.error = ""
    /\ Len(built.args.orders) = 2
    /\ built.args.minerFee = 3
    /\ built.args.orders[1].change # <<>>
    /\ built.result.outs[Len(built.result.outs)].value = 4

\* C18 witness of the rejection: an order lifting no more than its fee share
C18_RejectedWitness ==
    /\ built.kind = "lift"
    /\ built.error = "order amount is too low"

ConfidentialCoin(coin) == coin.valueConfidential \/ coin.assetConfidential

\* C19: createLiftTransaction fails, producing nothing, whenever a coin of an
\* order carries a confidential value or a confidential asset; no built lift
\* or pool has a confidential input or output.
C19_NoConfidentialCoin ==
    /\ built.kind = "lift" =>
           ((\E i \in DOMAIN built.args.orders :
                 \E j \in DOMAIN built.args.orders[i].coins :
                     ConfidentialCoin(built.args.orders[i].coins[j]))
                => (built.error # "" /\ built.result = <<>>))
    /\ (built.kind \in {"lift", "pool"} /\ built.error = "") =>
           /\ \A i \in DOMAIN built.result.ins : ~ConfidentialCoin(built.result.ins[i])
           /\ \A i \in DOMAIN built.result.outs : built.result.outs[i].asset = "explicit"

\* the part of C19 the code keeps: a coin of confidential value fails the lift
C19_ConfidentialValueRejected ==
    built.kind = "lift" =>
        ((\E i \in DOMAIN built.args.orders :
              \E j \in DOMAIN built.args.orders[i].coins :
                  built.args.orders[i].coins[j].valueConfidential)
             => (built.error # "" /\ built.result = <<>>))

\* -------------------------------------------------------------------- bip68
SEQUENCE_LOCKTIME_MASK == 65535

SEQUENCE_LOCKTIME_TYPE_FLAG == 2^22

SEQUENCE_LOCKTIME_GRANULARITY == 9

SECONDS_MOD == 2^SEQUENCE_LOCKTIME_GRANULARITY

SECONDS_MAX == SEQUENCE_LOCKTIME_MASK * 2^SEQUENCE_LOCKTIME_GRANULARITY

\* Buffer.from(asNumber.toString(16), 'hex').reverse(): the bytes of the number,
\* least significant first; every number from 2^22 on below 2^23 has six hex
\* digits; a negative number prints with a leading '-', at which the hex
\* decoding stops before the first byte
ReversedHexBytes(asNumber) ==
    IF asNumber < 0 THEN <<>>
    ELSE <<asNumber % 256, (asNumber \div 256) % 256, (asNumber \div 65536) % 256>>

\* SEQUENCE_LOCKTIME_TYPE_FLAG | n on 32-bit two's complement: bit 22 is added
\* unless n has it
OrTypeFlag(n) ==
    IF (n % (2 * SEQUENCE_LOCKTIME_TYPE_FLAG)) \div SEQUENCE_LOCKTIME_TYPE_FLAG = 1
    THEN n
    ELSE n + SEQUENCE_LOCKTIME_TYPE_FLAG

\* seconds % SECONDS_MOD of JavaScript: the remainder has the sign of seconds
JsRemainder(seconds, modulus) ==
    IF seconds >= 0 THEN seconds % modulus ELSE 0 - ((0 - seconds) % modulus)

\* seconds >> 9 rounds towards minus infinity, as \div does
bip68(seconds) ==
    IF seconds > SECONDS_MAX THEN
        [error |-> "seconds too large, max is 33553920", buffer |-> <<>>]
    ELSE IF JsRemainder(seconds, SECONDS_MOD) # 0 THEN
        [error |-> "seconds must be a multiple of 512", buffer |-> <<>>]
    ELSE
        [error  |-> "",
         buffer |-> ReversedHexBytes(
                        OrTypeFlag(seconds \div 2^SEQUENCE_LOCKTIME_GRANULARITY))]

\* the script number a CSV leaf reads from the buffer
RECURSIVE ScriptNumber(_)
ScriptNumber(buffer) ==
    IF buffer = <<>> THEN 0 ELSE Head(buffer) + 256 * ScriptNumber(Tail(buffer))

\* bip68.decode: the relative timelock of a sequence number with the type
\* flag set is its low sixteen bits, in units of 512 seconds
IsTimeBased(buffer) ==
    (ScriptNumber(buffer) \div SEQUENCE_LOCKTIME_TYPE_FLAG) % 2 = 1

DecodedSeconds(buffer) ==
    (ScriptNumber(buffer) % (SEQUENCE_LOCKTIME_MASK + 1)) * SECONDS_MOD

SecondsOfDay == 60 * 60 * 24

ClaimTimeoutDays == 30

RedeemTimeoutDays == 15

\* the longest duration, in days, handed to bip68
MaxDays == 60

\* whole days, whole days rounded down to the granularity, and the limits
Durations ==
    {d * SecondsOfDay : d \in 0..MaxDays}
        \cup {d * SecondsOfDay - ((d * SecondsOfDay) % SECONDS_MOD) : d \in 0..MaxDays}
        \cup {SECONDS_MOD, SECONDS_MAX - SECONDS_MOD, SECONDS_MAX, SECONDS_MAX + SECONDS_MOD}
        \cup {0 - d * SecondsOfDay : d \in 1..MaxDays}
        \cup {0 - 1, 0 - SECONDS_MOD, 0 - 2 * SECONDS_MOD, 0 - SECONDS_MAX}

\* one call of bip68
Bip68(seconds) ==
    /\ built = NoBuild
    /\ built' = IF bip68(seconds).error # ""
                THEN Thrown("bip68", seconds, bip68(seconds).error)
                ELSE Returned("bip68", seconds, bip68(seconds).buffer)
    /\ UNCHANGED <<queue, timer, building, pendingPool, nextTx, requests, resolveLog,
                   lastSend, persisting, repositoryVars, watcherVars>>

\* the two constant declarations of the builders' module, evaluated in order
\* when the module is loaded: the first bip68 that throws ends the load
LoadTimeouts ==
    LET claim  == bip68(SecondsOfDay * ClaimTimeoutDays)
        redeem == bip68(SecondsOfDay * RedeemTimeoutDays)
        args   == [claim  |-> SecondsOfDay * ClaimTimeoutDays,
                   redeem |-> SecondsOfDay * RedeemTimeoutDays]
    IN  /\ built = NoBuild
        /\ built' = IF claim.error # "" THEN Thrown("timeouts", args, claim.error)
                    ELSE IF redeem.error # "" THEN Thrown("timeouts", args, redeem.error)
                    ELSE Returned("timeouts", args,
                                  [CLAIM_TIMEOUT  |-> claim.buffer,
                                   REDEEM_TIMEOUT |-> redeem.buffer])
        /\ UNCHANGED <<queue, timer, building, pendingPool, nextTx, requests, resolveLog,
                       lastSend, persisting, repositoryVars, watcherVars>>

TimeoutNext ==
    \/ \E seconds \in Durations : Bip68(seconds)
    \/ LoadTimeouts

TimeoutSpec == Init /\ [][TimeoutNext]_vars

\* C20: the default timelocks of the builders are well defined: CLAIM_TIMEOUT
\* is the bip68 encoding of 30 days, REDEEM_TIMEOUT that of 15 days, both are
\* time-based BIP-68 values, and REDEEM_TIMEOUT decodes to strictly less than
\* CLAIM_TIMEOUT.
C20_DefaultTimeoutsDefined ==
    built.kind = "timeouts" =>
        /\ built.error = ""
        /\ IsTimeBased(built.result.CLAIM_TIMEOUT)
        /\ IsTimeBased(built.result.REDEEM_TIMEOUT)
        /\ DecodedSeconds(built.result.CLAIM_TIMEOUT) = 30 * 24 * 3600
        /\ DecodedSeconds(built.result.REDEEM_TIMEOUT) = 15 * 24 * 3600
        /\ DecodedSeconds(built.result.REDEEM_TIMEOUT)
               < DecodedSeconds(built.result.CLAIM_TIMEOUT)

\* what bip68 does keep: it encodes exactly the multiples of 512 from 0 up to
\* SECONDS_MAX, as time-based values that decode to the seconds given, and
\* throws for every other duration that is not negative
C20_Bip68DefinedOnMultiples ==
    (built.kind = "bip68" /\ built.args >= 0) =>
        /\ built.error = "" <=> (built.args <= 65535 * 512 /\ built.args % 512 = 0)
        /\ built.error = "" =>
               /\ IsTimeBased(built.result)
               /\ DecodedSeconds(built.result) = built.args

\* C21: bip68(seconds) returns a value exactly for the integers that are at
\* most 0xFFFF * 512 and multiples of 512, and throws for every other input;
\* the bytes it returns, read as a little-endian number, have bit 22 set and
\* seconds >> 9 in their low 16 bits.
C21_Bip68Encoding ==
    built.kind = "bip68" =>
        /\ built.error = "" <=>
               (built.args <= 65535 * 512 /\ \E k \in (0 - 65535)..65535 : built.args = k * 512)
        /\ built.error = "" =>
               /\ (ScriptNumber(built.result) \div 2^22) % 2 = 1
               /\ ScriptNumber(built.result) % 2^16 = (built.args \div 2^9) % 2^16

\* a duration of no less than 0 was encoded
C21_EncodedWitness ==
    /\ built.kind = "bip68"
    /\ built.error = ""
    /\ built.args > 0

\* ------------------------------------------------------------ script codecs
\* a script as bscript.decompile gives it: a sequence of chunks, each an opcode
\* or a pushed buffer with its length in bytes
Op(name) == [op |-> name, data |-> "", length |-> 0]

Push(data, length) == [op |-> "push", data |-> data, length |-> length]

IsBuffer(chunk) == chunk.op = "push"

\* stack.findIndex((op) => op === opcode), counted from 1; 0 when absent
FindOpcode(stack, opcode) ==
    IF \E i \in DOMAIN stack : stack[i] = Op(opcode)
    THEN CHOOSE i \in DOMAIN stack :
             /\ stack[i] = Op(opcode)
             /\ \A j \in 1..(i - 1) : stack[j] # Op(opcode)
    ELSE 0

\* buf.includes(compiled): the compiled script occurs somewhere in the buffer
Includes(buf, compiled) ==
    \E i \in 0..(Len(buf) - Len(compiled)) : SubSeq(buf, i + 1, i + Len(compiled)) = compiled

\* the chunk before that of index id, `undefined` when there is none
ChunkBefore(stack, id) ==
    IF id - 1 \in DOMAIN stack THEN stack[id - 1] ELSE Op("undefined")

Is32Bytes(chunk) == IsBuffer(chunk) /\ chunk.length = 32

NoFields == [error |-> "Invalid script"]

CompileCheckSequenceVerify(fields) ==
    <<fields.timeoutBIP68, Op("OP_CHECKSEQUENCEVERIFY"), Op("OP_DROP"),
      fields.ownerPublicKey, Op("OP_CHECKSIG")>>

DecompileCheckSequenceVerify(buf) ==
    LET idChecksig     == FindOpcode(buf, "OP_CHECKSIG")
        ownerPublicKey == ChunkBefore(buf, idChecksig)
        idCheckseq     == FindOpcode(buf, "OP_CHECKSEQUENCEVERIFY")
        timeoutBIP68   == ChunkBefore(buf, idCheckseq)
        res            == [error |-> "", ownerPublicKey |-> ownerPublicKey,
                           timeoutBIP68 |-> timeoutBIP68]
    IN  IF idChecksig = 0 THEN NoFields
        ELSE IF ~Is32Bytes(ownerPublicKey) THEN NoFields
        ELSE IF idCheckseq = 0 THEN NoFields
        ELSE IF ~IsBuffer(timeoutBIP68) THEN NoFields
        ELSE IF ~Includes(buf, CompileCheckSequenceVerify(res)) THEN NoFields
        ELSE res

CompileFrozenReceiver(fields) ==
    <<fields.ownerPublicKey, Op("OP_CHECKSIGVERIFY"), Op("OP_DUP"), Op("OP_DUP"),
      Op("OP_PUSHCURRENTINPUTINDEX"), Op("OP_INSPECTINPUTASSET"), Op("OP_CAT"),
      Op("OP_SWAP"), Op("OP_INSPECTOUTPUTASSET"), Op("OP_CAT"), Op("OP_EQUALVERIFY"),
      Op("OP_PUSHCURRENTINPUTINDEX"), Op("OP_INSPECTINPUTVALUE"), Op("OP_CAT"),
      Op("OP_SWAP"), Op("OP_INSPECTOUTPUTVALUE"), Op("OP_CAT"), Op("OP_EQUALVERIFY"),
      Op("OP_INSPECTOUTPUTSCRIPTPUBKEY"), Op("OP_1"), Op("OP_EQUALVERIFY"),
      fields.witnessProgram, Op("OP_EQUAL")>>

DecompileFrozenReceiver(buf) ==
    LET idChecksig     == FindOpcode(buf, "OP_CHECKSIGVERIFY")
        ownerPublicKey == ChunkBefore(buf, idChecksig)
        idEqual        == FindOpcode(buf, "OP_EQUAL")
        witnessProgram == ChunkBefore(buf, idEqual)
        res            == [error |-> "", ownerPublicKey |-> ownerPublicKey,
                           witnessProgram |-> witnessProgram]
    IN  IF idChecksig = 0 THEN NoFields
        ELSE IF ~Is32Bytes(ownerPublicKey) THEN NoFields
        ELSE IF idEqual = 0 THEN NoFields
        ELSE IF ~Is32Bytes(witnessProgram) THEN NoFields
        ELSE IF ~Includes(buf, CompileFrozenReceiver(res)) THEN NoFields
        ELSE res

\* a forfeit script that does not look at input 0
CompileForfeitUnbound(fields) ==
    <<Op("OP_DUP"), Op("OP_2"), Op("OP_ROLL"), Op("OP_SWAP"), Op("OP_CAT"),
      Op("OP_SHA256"), Op("OP_DUP"), Op("OP_3"), Op("OP_ROLL"), Op("OP_SWAP"),
      fields.ownerPubKey, Op("OP_CHECKSIGFROMSTACKVERIFY"),
      Op("OP_2"), Op("OP_ROLL"), Op("OP_SWAP"),
      fields.providerPubKey, Op("OP_CHECKSIGFROMSTACKVERIFY"),
      Op("OP_DROP"), Op("OP_1")>>

CompileForfeit(fields) ==
    <<Op("OP_DUP"), Op("OP_2"), Op("OP_ROLL"), Op("OP_SWAP"), Op("OP_CAT"),
      Op("OP_SHA256"), Op("OP_DUP"), Op("OP_3"), Op("OP_ROLL"), Op("OP_SWAP"),
      fields.ownerPubKey, Op("OP_CHECKSIGFROMSTACKVERIFY"),
      Op("OP_2"), Op("OP_ROLL"), Op("OP_SWAP"),
      fields.providerPubKey, Op("OP_CHECKSIGFROMSTACKVERIFY"),
      Op("OP_0"), Op("OP_INSPECTINPUTOUTPOINT"), Op("OP_DROP"), Op("OP_DROP"),
      Op("OP_EQUAL")>>

\* second is the index within stack.slice(first + 1), counted from 0 in the
\* code: the provider key is the chunk before the second opcode unless that
\* opcode follows the first one at once
DecompileForfeit(buf) ==
    LET first          == FindOpcode(buf, "OP_CHECKSIGFROMSTACKVERIFY")
        ownerPubKey    == ChunkBefore(buf, first)
        rest           == SubSeq(buf, first + 1, Len(buf))
        second         == FindOpcode(rest, "OP_CHECKSIGFROMSTACKVERIFY")
        providerPubKey == ChunkBefore(rest, second)
        res            == [error |-> "", ownerPubKey |-> ownerPubKey,
                           providerPubKey |-> providerPubKey]
    IN  IF first = 0 THEN NoFields
        ELSE IF ~Is32Bytes(ownerPubKey) THEN NoFields
        ELSE IF second = 0 THEN NoFields
        ELSE IF ~Is32Bytes(providerPubKey) THEN NoFields
        ELSE IF ~Includes(buf, CompileForfeit(res)) THEN NoFields
        ELSE res

Codecs == {"CheckSequenceVerifyScript", "FrozenReceiverScript", "ForfeitScript"}

Compile(codec, fields) ==
    CASE codec = "CheckSequenceVerifyScript" -> CompileCheckSequenceVerify(fields)
      [] codec = "FrozenReceiverScript"      -> CompileFrozenReceiver(fields)
      [] codec = "ForfeitScript"             -> CompileForfeit(fields)

Decompile(codec, buf) ==
    CASE codec = "CheckSequenceVerifyScript" -> DecompileCheckSequenceVerify(buf)
      [] codec = "FrozenReceiverScript"      -> DecompileFrozenReceiver(buf)
      [] codec = "ForfeitScript"             -> DecompileForfeit(buf)

\* the buffers the constructors admit: x-only keys and witness programs of 32
\* bytes, timeouts as bip68 gives them
KeyBuffers == {Push(k, 32) : k \in {"alice", "asp"}}

TimeoutBuffers == {Push("timeout", 3)}

AdmissibleFields(codec) ==
    CASE codec = "CheckSequenceVerifyScript" ->
             [error : {""}, ownerPublicKey : KeyBuffers, timeoutBIP68 : TimeoutBuffers]
      [] codec = "FrozenReceiverScript" ->
             [error : {""}, ownerPublicKey : KeyBuffers,
              witnessProgram : {Push("program", 32)}]
      [] codec = "ForfeitScript" ->
             [error : {""}, ownerPubKey : KeyBuffers, providerPubKey : KeyBuffers]

\* nothing, or one chunk, put before or after a compiled script
ExtraChunks == {<<>>} \cup {<<c>> : c \in {Op("OP_1"), Op("OP_DROP"), Push("alice", 32)}}

SwapAt(script, i) ==
    [j \in DOMAIN script |->
        IF j = i THEN script[i + 1] ELSE IF j = i + 1 THEN script[i] ELSE script[j]]

\* a compiled script and its deviations: chunks before or after it, one chunk
\* left out, two neighbours in the other order, a key of 33 bytes
Deviations(script) ==
    {before \o script \o after : before \in ExtraChunks, after \in ExtraChunks}
        \cup {RemoveAt(script, i) : i \in DOMAIN script}
        \cup {SwapAt(script, i) : i \in 1..(Len(script) - 1)}
        \cup {[j \in DOMAIN script |->
                  IF script[j].length = 32 THEN Push(script[j].data, 33) ELSE script[j]]}

Scripts(codec) ==
    UNION {Deviations(Compile(codec, fields)) : fields \in AdmissibleFields(codec)}

\* X.decompile(buf), and the compile() of what it returned
DecompileScript(codec, buf) ==
    /\ built = NoBuild
    /\ built' = IF Decompile(codec, buf).error # ""
                THEN Thrown("decompile", [codec |-> codec, buf |-> buf],
                            Decompile(codec, buf).error)
                ELSE Returned("decompile", [codec |-> codec, buf |-> buf],
                              [fields   |-> Decompile(codec, buf),
                               compiled |-> Compile(codec, Decompile(codec, buf))])
    /\ UNCHANGED <<queue, timer, building, pendingPool, nextTx, requests, resolveLog,
                   lastSend, persisting, repositoryVars, watcherVars>>

\* new X(fields).compile(), and the decompile() of what it returned
CompileScript(codec, fields) ==
    /\ built = NoBuild
    /\ built' = Returned("compile", [codec |-> codec, fields |-> fields],
                         [compiled   |-> Compile(codec, fields),
                          decompiled |-> Decompile(codec, Compile(codec, fields))])
    /\ UNCHANGED <<queue, timer, building, pendingPool, nextTx, requests, resolveLog,
                   lastSend, persisting, repositoryVars, watcherVars>>

CodecNext ==
    \/ \E codec \in Codecs : \E buf \in Scripts(codec) : DecompileScript(codec, buf)
    \/ \E codec \in Codecs : \E fields \in AdmissibleFields(codec) :
           CompileScript(codec, fields)

CodecSpec == Init /\ [][CodecNext]_vars

\* C22: for each of the three codecs, decompile(b) succeeds exactly when b is
\* the compile() output of admissible fields, and then compile(decompile(b)) = b
\* and decompile(compile(f)) = f; a script with chunks before or after the
\* canonical sequence, or with a chunk left out or out of place, is rejected.
C22_CodecsAreStrict ==
    /\ built.kind = "decompile" =>
           /\ built.error = "" <=>
                  \E fields \in AdmissibleFields(built.args.codec) :
                      built.args.buf = Compile(built.args.codec, fields)
           /\ built.error = "" => built.result.compiled = built.args.buf
    /\ built.kind = "compile" => built.result.decompiled = built.args.fields

\* the part of C22 the codecs keep: compile, then decompile, then compile
C22_CompileRoundTrip ==
    /\ built.kind = "compile" =>
           /\ built.result.decompiled = built.args.fields
           /\ Compile(built.args.codec, built.result.decompiled) = built.result.compiled
    /\ (built.kind = "decompile" /\ built.error = "") =>
           Includes(built.args.buf, built.result.compiled)

\* ------------------------------------ WsElectrumChainSource.fetchTransactions
MISSING_TRANSACTION == "missingtransaction"

MAX_FETCH_TRANSACTIONS_ATTEMPTS == 5

\* number of txids asked for in one call
MaxTxids == 2

TxidLists == UNION {[1..n -> {"L1", "P1"}] : n \in 0..MaxTxids}

\* what the server answers for one txid
Hexes == {"hex-a", "hex-b"}

\* what batchRequest rejects with: a string, an Error, or any other value;
\* a message is the sequence of its words
Rejections ==
    [type : {"string", "Error", "other"},
     message : {<<MISSING_TRANSACTION>>, <<"daemon", MISSING_TRANSACTION, "error">>,
                <<"timeout">>}]

NoRejection == [type |-> "none", message |-> <<>>]

extractErrorMessage(error) ==
    IF error.type = "string" THEN error.message
    ELSE IF error.type = "Error" THEN error.message
    ELSE <<"unknown", "error">>

RetriesAnyError(error) == TRUE

\* extractErrorMessage(e).includes(MISSING_TRANSACTION)
IsMissingTransaction(error) ==
    \E w \in DOMAIN extractErrorMessage(error) :
        extractErrorMessage(error)[w] = MISSING_TRANSACTION

\* the call between two of its awaits: i is the loop counter, sent the number
\* of batch requests made, caught the rejection being handled
Fetching(txids, i, sent, phase, caught) ==
    [kind |-> "fetch", args |-> txids, error |-> "", result |-> <<>>,
     i |-> i, sent |-> sent, phase |-> phase, caught |-> caught, responses |-> <<>>]

\* the call starts: the first batch request is sent
FetchTransactions(txids) ==
    /\ built = NoBuild
    /\ built' = Fetching(txids, 0, 1, "batchRequest", NoRejection)
    /\ UNCHANGED <<queue, timer, building, pendingPool, nextTx, requests, resolveLog,
                   lastSend, persisting, repositoryVars, watcherVars>>

\* the batch request resolves: return responses.map((hex, i) => ...)
BatchResolves(responses) ==
    /\ built.kind = "fetch"
    /\ built.phase = "batchRequest"
    /\ Len(responses) = Len(built.args)
    /\ built' = [built EXCEPT !.phase = "returned",
                              !.responses = responses,
                              !.result = [j \in DOMAIN responses |->
                                             [txID |-> built.args[j], hex |-> responses[j]]]]
    /\ UNCHANGED <<queue, timer, building, pendingPool, nextTx, requests, resolveLog,
                   lastSend, persisting, repositoryVars, watcherVars>>

\* the batch request rejects: wait a second and go on, or rethrow
BatchRejects(e) ==
    /\ built.kind = "fetch"
    /\ built.phase = "batchRequest"
    /\ built' = IF IsMissingTransaction(e)
                THEN [built EXCEPT !.phase = "setTimeout", !.caught = e]
                ELSE [built EXCEPT !.phase = "thrown", !.caught = e, !.error = "rethrown"]
    /\ UNCHANGED <<queue, timer, building, pendingPool, nextTx, requests, resolveLog,
                   lastSend, persisting, repositoryVars, watcherVars>>

\* the second has passed: continue with i + 1, which sends the next batch
\* request or leaves the loop and throws
RetryTimeout ==
    /\ built.kind = "fetch"
    /\ built.phase = "setTimeout"
    /\ built' = IF built.i + 1 < MAX_FETCH_TRANSACTIONS_ATTEMPTS
                THEN [built EXCEPT !.i = built.i + 1, !.sent = built.sent + 1,
                                   !.phase = "batchRequest"]
                ELSE [built EXCEPT !.i = built.i + 1, !.phase = "thrown",
                                   !.error = "Unable to fetch transactions"]
    /\ UNCHANGED <<queue, timer, building, pendingPool, nextTx, requests, resolveLog,
                   lastSend, persisting, repositoryVars, watcherVars>>

FetchNext ==
    \/ \E txids \in TxidLists : FetchTransactions(txids)
    \/ \E responses \in UNION {[1..n -> Hexes] : n \in 0..MaxTxids} : BatchResolves(responses)
    \/ \E e \in Rejections : BatchRejects(e)
    \/ RetryTimeout

\* every batch request settles and every timeout fires
FetchSpec == Init /\ [][FetchNext]_vars /\ WF_vars(FetchNext)

FetchSettled == built.kind = "fetch" /\ built.phase \in {"returned", "thrown"}

ContainsMissingTransaction(message) ==
    \E w \in DOMAIN message : message[w] = "missingtransaction"

\* the states of a call
FetchWithinAttempts ==
    built.kind = "fetch" =>
        /\ built.sent <= 5
        /\ built.phase = "returned" =>
               /\ Len(built.result) = Len(built.args)
               /\ \A j \in DOMAIN built.args :
                      built.result[j] = [txID |-> built.args[j], hex |-> built.responses[j]]
        /\ (built.phase = "thrown" /\ built.error = "rethrown") =>
               ~(built.caught.type \in {"string", "Error"}
                     /\ ContainsMissingTransaction(built.caught.message))
        /\ (built.phase = "thrown" /\ built.error # "rethrown") =>
               /\ built.sent = 5
               /\ built.i = 5
               /\ ContainsMissingTransaction(built.caught.message)

\* the steps of a call
FetchStep ==
    /\ (built.kind = "fetch" /\ built'.sent > built.sent) =>
           /\ built'.sent = built.sent + 1
           /\ built.phase = "setTimeout"
           /\ ContainsMissingTransaction(built.caught.message)
    /\ (built.kind = "fetch" /\ built.phase = "batchRequest"
            /\ built'.phase \in {"returned", "thrown"}) =>
           built'.sent = built.sent
    /\ (built.kind = "fetch" /\ built.phase = "batchRequest"
            /\ built'.caught # built.caught
            /\ ~ContainsMissingTransaction(built'.caught.message)) =>
           built'.phase = "thrown"
    /\ (built.kind = "fetch" /\ built.phase = "setTimeout" /\ built.sent = 5) =>
           (built'.phase = "thrown" /\ built'.error = "Unable to fetch transactions")

\* C23: fetchTransactions always terminates, after at most 5 batch requests:
\* it returns the first successful response mapped to the requested txids in
\* order, sends a further request only after an error whose message contains
\* 'missingtransaction', rethrows any other error at once without a further
\* request, and throws after the 5th missing-transaction failure in a row.
C23_FetchTerminates ==
    /\ []FetchWithinAttempts
    /\ [][FetchStep]_vars
    /\ (built.kind = "fetch") ~> FetchSettled

\* C23 witness: the fifth batch request failed as the four before it, and
\* the call threw
C23_Witness ==
    /\ built.kind = "fetch"
    /\ built.phase = "thrown"
    /\ built.sent = 5
    /\ built.error = "Unable to fetch transactions"
    /\ Len(built.args) = 2

\* a call returned the response of its third batch request
C23_ReturnedAfterRetries ==
    /\ built.kind = "fetch"
    /\ built.phase = "returned"
    /\ built.sent = 3
    /\ Len(built.result) = 2

\* --------------------------------------------- the forfeit script, executed
\* a stack item is a byte string, here a sequence of named pieces
ReversedTxid(txid) == <<"reversed", txid>>

\* writeUInt32: four bytes, least significant first
UInt32(n) == <<"u32le", ToString(n)>>

Sha256(bytes) == <<"sha256">> \o bytes

\* a BIP-340 signature made with the key of `publicKey` over `message`
SchnorrSignature(publicKey, message) == <<"schnorr", publicKey>> \o message

\* the script number a small item stands for
ScriptNum(item) ==
    IF item = <<>> THEN 0
    ELSE IF item = <<"01">> THEN 1
    ELSE IF item = <<"02">> THEN 2
    ELSE IF item = <<"03">> THEN 3
    ELSE 0 - 1

Failed == [ok |-> FALSE, stack |-> <<>>]

Ok(stack) == [ok |-> TRUE, stack |-> stack]

Top(stack, depth) == stack[Len(stack) - depth]

Pop(stack, n) == SubSeq(stack, 1, Len(stack) - n)

\* one opcode on the stack, the top of the stack last; ins are the inputs of
\* the spending transaction
Execute(chunk, stack, ins) ==
    CASE chunk.op = "push" -> Ok(Append(stack, <<chunk.data>>))
      [] chunk.op = "OP_0" -> Ok(Append(stack, <<>>))
      [] chunk.op = "OP_1" -> Ok(Append(stack, <<"01">>))
      [] chunk.op = "OP_2" -> Ok(Append(stack, <<"02">>))
      [] chunk.op = "OP_3" -> Ok(Append(stack, <<"03">>))
      [] chunk.op = "OP_DUP" ->
             IF Len(stack) < 1 THEN Failed ELSE Ok(Append(stack, Top(stack, 0)))
      [] chunk.op = "OP_DROP" ->
             IF Len(stack) < 1 THEN Failed ELSE Ok(Pop(stack, 1))
      [] chunk.op = "OP_SWAP" ->
             IF Len(stack) < 2 THEN Failed
             ELSE Ok(Pop(stack, 2) \o <<Top(stack, 0), Top(stack, 1)>>)
      [] chunk.op = "OP_ROLL" ->
             IF Len(stack) < 1 THEN Failed
             ELSE LET n    == ScriptNum(Top(stack, 0))
                      rest == Pop(stack, 1)
                  IN  IF n < 0 \/ n >= Len(rest) THEN Failed
                      ELSE Ok(RemoveAt(rest, Len(rest) - n) \o <<Top(rest, n)>>)
      [] chunk.op = "OP_CAT" ->
             IF Len(stack) < 2 THEN Failed
             ELSE Ok(Append(Pop(stack, 2), Top(stack, 1) \o Top(stack, 0)))
      [] chunk.op = "OP_SHA256" ->
             IF Len(stack) < 1 THEN Failed
             ELSE Ok(Append(Pop(stack, 1), Sha256(Top(stack, 0))))
      [] chunk.op = "OP_CHECKSIGFROMSTACKVERIFY" ->
             IF Len(stack) < 3 THEN Failed
             ELSE IF Top(stack, 2) = SchnorrSignature(Top(stack, 0)[1], Top(stack, 1))
                  THEN Ok(Pop(stack, 3))
                  ELSE Failed
      [] chunk.op = "OP_INSPECTINPUTOUTPOINT" ->
             IF Len(stack) < 1 THEN Failed
             ELSE LET n == ScriptNum(Top(stack, 0))
                  IN  IF n < 0 \/ n >= Len(ins) THEN Failed
                      ELSE Ok(Pop(stack, 1) \o <<ReversedTxid(ins[n + 1].txid),
                                                 UInt32(ins[n + 1].txIndex),
                                                 <<"flag">>>>)
      [] chunk.op = "OP_EQUAL" ->
             IF Len(stack) < 2 THEN Failed
             ELSE Ok(Append(Pop(stack, 2),
                            IF Top(stack, 0) = Top(stack, 1) THEN <<"01">> ELSE <<>>))
      [] OTHER -> Failed

RECURSIVE Run(_, _, _)
Run(script, stack, ins) ==
    IF script = <<>> THEN Ok(stack)
    ELSE LET step == Execute(Head(script), stack, ins)
         IN  IF step.ok THEN Run(Tail(script), step.stack, ins) ELSE Failed

\* the script succeeds when it runs through and leaves one true item
Succeeds(script, witness, ins) ==
    LET end == Run(script, witness, ins)
    IN  end.ok /\ Len(end.stack) = 1 /\ end.stack[1] # <<>>

\* hashForfeitMessage, byte for byte
ForfeitMessageBytes(msg) ==
    ReversedTxid(msg.vUtxoTxID) \o UInt32(msg.vUtxoIndex) \o ReversedTxid(msg.promisedPoolTxID)

ForfeitMessageDigest(msg) == Sha256(ForfeitMessageBytes(msg))

\* the four witness items ForfeitScript.finalizer puts before the script
Finalizer(msg, aspSig, userSig) ==
    <<aspSig, userSig,
      ReversedTxid(msg.vUtxoTxID) \o UInt32(msg.vUtxoIndex),
      ReversedTxid(msg.promisedPoolTxID)>>

WitnessMessages == [vUtxoTxID : {"L1", "L2"}, vUtxoIndex : {0}, promisedPoolTxID : {"P1", "P2"}]

\* signatures of the users and of the ASP over forfeit messages, and one over
\* something else
WitnessSignatures ==
    {SchnorrSignature(k, ForfeitMessageDigest(msg)) :
         k \in {"alice", AspPublicKey}, msg \in WitnessMessages}
        \cup {SchnorrSignature("alice", <<"sighash">>)}

\* input 0 and input 1 of the spending transaction
SpendingInputs ==
    {<<[txid |-> t, txIndex |-> 2], [txid |-> "R1", txIndex |-> 0]>> : t \in {"P1", "P2"}}

ForfeitFields ==
    [error : {""}, ownerPubKey : {Push("alice", 32)}, providerPubKey : {Push(AspPublicKey, 32)}]

\* a spend of the forfeit leaf with four witness items of any kind
SpendForfeitLeaf(fields, witness, ins) ==
    /\ built = NoBuild
    /\ built' = IF Succeeds(CompileForfeit(fields), witness, ins)
                THEN Returned("script", [fields |-> fields, witness |-> witness, ins |-> ins],
                              <<"success">>)
                ELSE Thrown("script", [fields |-> fields, witness |-> witness, ins |-> ins],
                            "script failed")
    /\ UNCHANGED <<queue, timer, building, pendingPool, nextTx, requests, resolveLog,
                   lastSend, persisting, repositoryVars, watcherVars>>

\* a spend of the forfeit leaf with the witness of ForfeitScript.finalizer
FinalizeForfeit(fields, msg, aspSig, userSig, ins) ==
    /\ built = NoBuild
    /\ LET witness == Finalizer(msg, aspSig, userSig)
           args    == [fields |-> fields, witness |-> witness, ins |-> ins, msg |-> msg]
       IN  built' = IF Succeeds(CompileForfeit(fields), witness, ins)
                    THEN Returned("finalizer", args, <<"success">>)
                    ELSE Thrown("finalizer", args, "script failed")
    /\ UNCHANGED <<queue, timer, building, pendingPool, nextTx, requests, resolveLog,
                   lastSend, persisting, repositoryVars, watcherVars>>

ScriptNext ==
    \/ \E fields \in ForfeitFields, ins \in SpendingInputs :
         \E aspSig \in WitnessSignatures, userSig \in WitnessSignatures :
           \E msg \in WitnessMessages, promised \in {"P1", "P2"} :
               SpendForfeitLeaf(fields,
                                <<aspSig, userSig,
                                  ReversedTxid(msg.vUtxoTxID) \o UInt32(msg.vUtxoIndex),
                                  ReversedTxid(promised)>>,
                                ins)
    \/ \E fields \in ForfeitFields, ins \in SpendingInputs :
         \E aspSig \in WitnessSignatures, userSig \in WitnessSignatures :
           \E msg \in WitnessMessages :
               FinalizeForfeit(fields, msg, aspSig, userSig, ins)

ScriptSpec == Init /\ [][ScriptNext]_vars

\* C24: the forfeit script run on [aspSig, userSig, outpointBytes,
\* promisedTxIdReversed] succeeds only if userSig verifies under the owner key
\* and aspSig under the provider key, both over
\* SHA256(outpointBytes || promisedTxIdReversed), and the txid of input 0's
\* outpoint is promisedTxIdReversed; for the witness of the finalizer that
\* hash is hashForfeitMessage(msg).
C24_ForfeitScriptBinds ==
    /\ (built.kind \in {"script", "finalizer"} /\ built.error = "") =>
           LET w    == built.args.witness
               hash == <<"sha256">> \o w[3] \o w[4]
           IN  /\ w[2] = <<"schnorr", built.args.fields.ownerPubKey.data>> \o hash
               /\ w[1] = <<"schnorr", built.args.fields.providerPubKey.data>> \o hash
               /\ w[4] = <<"reversed", built.args.ins[1].txid>>
    /\ built.kind = "finalizer" =>
           <<"sha256">> \o built.args.witness[3] \o built.args.witness[4]
               = <<"sha256", "reversed", built.args.msg.vUtxoTxID,
                   "u32le", ToString(built.args.msg.vUtxoIndex),
                   "reversed", built.args.msg.promisedPoolTxID>>

\* C24 witness: the witness of the finalizer spent the forfeit leaf
C24_Witness ==
    /\ built.kind = "finalizer"
    /\ built.error = ""
    /\ built.args.msg.promisedPoolTxID = "P2"

\* a witness of any kind spent the forfeit leaf
C24_SpentWitness ==
    /\ built.kind = "script"
    /\ built.error = ""

\* the transaction whose shared output held the vUTXO that the redeem
\* transaction of that txid spent
RedeemedVUtxo(tx_hash) ==
    CHOOSE txid \in DOMAIN RedeemTxIDs : \E k \in Keys : RedeemTxIDs[txid][k] = tx_hash

\* C25: watchRedeem spends a redeem output with a forfeit transaction only if
\* that output comes from redeeming the vUTXO the stored forfeit message
\* names; the redeem output of another vUTXO of the same owner key, for which
\* no forfeit was signed, is never forfeited.
C25_OnlyForfeitedVUtxo ==
    \A j \in DOMAIN broadcasts :
        /\ RedeemedVUtxo(broadcasts[j].ins[2].txid) = broadcasts[j].witness[1].vUtxoTxID
        /\ broadcasts[j].witness[1].vUtxoIndex = 0

\* a forfeit transaction spent the redeem output of the vUTXO its message names
C25_ForfeitedWitness ==
    \E j \in DOMAIN broadcasts :
        /\ RedeemedVUtxo(broadcasts[j].ins[2].txid) = broadcasts[j].witness[1].vUtxoTxID
        /\ broadcasts[j].witness[1].vUtxoTxID = "L1"

\* two entries name the same vUTXO: the same outpoint held by the same key
SameVUtxo(a, b) ==
    a.txID = b.txID /\ a.txIndex = b.txIndex /\ a.ownerPublicKey = b.ownerPublicKey

QueuedVUtxo(order) ==
    [txID |-> order.vUtxo.txid, txIndex |-> order.vUtxo.txIndex,
     ownerPublicKey |-> order.signerPublicKey]

\* the vUTXOs a pending pool waits for
AwaitedVUtxos(pool) == {pool.toForfeit[i] : i \in DOMAIN pool.toForfeit}

\* C26: a vUTXO is the subject of at most one accepted transfer order: over any
\* sequence of sendRequest calls and timer firings its outpoint is never twice
\* in the queue, twice in the toForfeit list of one pending pool, or in the
\* lists of two pending pools.
C26_OneOrderPerVUtxo ==
    /\ \A i \in DOMAIN queue : \A j \in DOMAIN queue :
           i # j => ~SameVUtxo(QueuedVUtxo(queue[i]), QueuedVUtxo(queue[j]))
    /\ \A txID \in DOMAIN pendingPool :
           \A i \in DOMAIN pendingPool[txID].toForfeit :
               \A j \in DOMAIN pendingPool[txID].toForfeit :
                   i # j => ~SameVUtxo(pendingPool[txID].toForfeit[i],
                                       pendingPool[txID].toForfeit[j])
    /\ \A t1 \in DOMAIN pendingPool : \A t2 \in DOMAIN pendingPool :
           t1 # t2 => AwaitedVUtxos(pendingPool[t1]) \cap AwaitedVUtxos(pendingPool[t2]) = {}

\* the three cases of C26, one by one
C26_NotTwiceInQueue ==
    \A i \in DOMAIN queue : \A j \in DOMAIN queue :
        i # j => ~SameVUtxo(QueuedVUtxo(queue[i]), QueuedVUtxo(queue[j]))

C26_NotTwiceInOnePool ==
    \A txID \in DOMAIN pendingPool :
        \A i \in DOMAIN pendingPool[txID].toForfeit :
            \A j \in DOMAIN pendingPool[txID].toForfeit :
                i # j => ~SameVUtxo(pendingPool[txID].toForfeit[i],
                                    pendingPool[txID].toForfeit[j])

C26_NotInTwoPools ==
    \A t1 \in DOMAIN pendingPool : \A t2 \in DOMAIN pendingPool :
        t1 # t2 => AwaitedVUtxos(pendingPool[t1]) \cap AwaitedVUtxos(pendingPool[t2]) = {}

\* ------------------------------------------- properties: the stored forfeits
\* repository.getForfeit resolves with the entry stored under the script;
\* NoForfeit stands for the undefined of Map.get
getForfeit(forfeits, redeemScriptPubKey) ==
    IF redeemScriptPubKey \in DOMAIN forfeits THEN forfeits[redeemScriptPubKey]
    ELSE NoForfeit

\* the forfeits collected for a finalized pool: the entries of signatures
\* whose signature send() verified, which the chain resolved with the pool hex
CollectedFor(txID) ==
    {[redeemScriptPubKey |-> persisting[txID].signatures[j].redeemScriptPubKey,
      msg |-> persisting[txID].signatures[j].msg,
      sig |-> persisting[txID].signatures[j].signature] :
        j \in {i \in DOMAIN persisting[txID].signatures :
                  persisting[txID].signatures[i].state = "resolved"}}

\* a finalized pool whose chain succeeded and in which every order was
\* forfeited once, by a send() with a valid signature for a vUTXO of its own
CollectedOnce(txID) ==
    /\ persisting[txID].stage = "resolved"
    /\ Len(persisting[txID].signatures) = Len(requests)
    /\ \A i \in DOMAIN persisting[txID].signatures :
           /\ persisting[txID].signatures[i].state = "resolved"
           /\ \A j \in DOMAIN persisting[txID].signatures :
                  persisting[txID].signatures[i].msg = persisting[txID].signatures[j].msg
                      => i = j

\* C27 as stated: every forfeit collected for a finalized pool is the one
\* getForfeit returns for its redeem script, so the repository holds one
\* forfeit per accepted forfeit message; a second forfeit by the same owner
\* key within the pool does not replace the first.
C27_ForfeitsRetrievable ==
    \A txID \in DOMAIN persisting :
        CollectedOnce(txID) =>
            \A f \in CollectedFor(txID) :
                getForfeit(forfeitByScriptPubKey, f.redeemScriptPubKey) =
                    [msg |-> f.msg, sig |-> f.sig]

\* the case of C27 that does hold: the forfeits of the pool are by different
\* owner keys
C27_DistinctOwnersRetrievable ==
    \A txID \in DOMAIN persisting :
        (/\ CollectedOnce(txID)
         /\ \A f \in CollectedFor(txID) : \A g \in CollectedFor(txID) :
                f.redeemScriptPubKey = g.redeemScriptPubKey => f = g)
        => \A f \in CollectedFor(txID) :
               getForfeit(forfeitByScriptPubKey, f.redeemScriptPubKey) =
                   [msg |-> f.msg, sig |-> f.sig]

\* two forfeits of one pool by the same owner key have been stored
C27_SameOwnerTwiceWitness ==
    \E txID \in DOMAIN persisting :
        /\ CollectedOnce(txID)
        /\ \E f \in CollectedFor(txID) : \E g \in CollectedFor(txID) :
               f.redeemScriptPubKey = g.redeemScriptPubKey /\ f # g

\* ---------------------------------------- properties: interleaved watcher runs
\* the run is inside an iteration of the loop with its forfeit transaction
\* built: awaiting broadcastTransaction or updateConnectors
InFlight(r) == watch[r].pc \in {"broadcastTransaction", "updateConnectors"}

\* both runs have ended, and the repository rejected no updateConnectors
BothFinished ==
    /\ \A r \in Runs : watch[r].pc \in {"done", "failed"}
    /\ \A r \in Runs : watch[r].error # "updateConnectors failed"

\* the first part of C28: two runs that are inside an iteration at the same
\* time have built their forfeit transactions on different connectors
C28_DistinctConnectorsInFlight ==
    \A r1 \in Runs : \A r2 \in Runs :
        (r1 # r2 /\ InFlight(r1) /\ InFlight(r2)) =>
            watch[r1].forfeitTx.ins[1] # watch[r2].forfeitTx.ins[1]

\* the second part of C28: when both runs have ended, the stored list is the
\* original list without the connectors spent by the broadcast forfeits
C28_NoLostUpdate ==
    BothFinished =>
        \A txID \in DOMAIN poolTransactions :
            poolTransactions[txID].connectors =
                Drop(persisting[txID].connectors, Len(ForfeitsAgainst(txID)))

\* C28 as stated: two watchRedeem runs that interleave at their await points
\* never use the same connector as input 0 of two forfeit transactions, and
\* when both have finished the stored connector list is the original list
\* minus the connectors consumed by successful broadcasts.
C28_InterleavedRunsShareNoConnector ==
    C28_DistinctConnectorsInFlight /\ C28_NoLostUpdate

\* two broadcast forfeit transactions never spend the same connector: the
\* chain rejects the second
C28_BroadcastsShareNoConnector ==
    \A i \in DOMAIN broadcasts : \A j \in DOMAIN broadcasts :
        broadcasts[i].ins[1] = broadcasts[j].ins[1] => i = j

\* a run was rejected by the chain for the connector another run had spent,
\* while the pool still had a connector left for it
C28_LostForfeitWitness ==
    \E r \in Runs :
        /\ watch[r].pc = "failed"
        /\ watch[r].error = "broadcast failed"
        /\ watch[r].forfeitTx.ins[1] \in chainSpent
        /\ watch[r].forfeitTx.ins[2] \notin chainSpent
        /\ \E txID \in DOMAIN poolTransactions :
               /\ txID = watch[r].forfeitTx.ins[1].txid
               /\ Len(poolTransactions[txID].connectors) > 0
               /\ ~UpdateOutstanding

\* both runs ended after forfeits were broadcast by each of them
C28_BothFinishedWitness ==
    /\ BothFinished
    /\ \A r \in Runs : Len(watch[r].broadcastedTxIDs) > 0

\* --------------------------------------- properties: the leaves of a pool
\* the leaf of the shared tree that pays stakeholder i its own amount
OwnLeaf(aspKey, stakeHolders, i) ==
    FrozenReceiverLeaf(stakeHolders[i].key,
                       redeemPath(aspKey, stakeHolders[i].key).outputScript.program,
                       SumAmounts(stakeHolders) - stakeHolders[i].amount)

\* the entry of leaves read under the key of stakeholder i designates the
\* leaf of stakeholder i
DesignatesOwnLeaf(result, i) ==
    /\ result.stakeHolders[i].key \in DOMAIN result.leaves
    /\ ExtendedVirtualUtxo(AspPublicKey, result, result.stakeHolders[i].key)
           .vUtxoTree.redeemLeaf.script =
               OwnLeaf(AspPublicKey, result.stakeHolders, i)

\* two stakeholders of the pool have the same key
RepeatedKey(stakeHolders) ==
    \E i \in DOMAIN stakeHolders : \E j \in DOMAIN stakeHolders :
        i # j /\ stakeHolders[i].key = stakeHolders[j].key

\* C29 as stated: the leaves map returned by createPoolTransaction has one
\* entry per stakeholder of the shared tree, and the entry read under a
\* stakeholder's key designates that stakeholder's own leaf and amount, also
\* when two transfers pay the same recipient key or a recipient key is also a
\* change owner.
C29_OneLeafPerStakeholder ==
    (built.kind = "pool" /\ built.error = "") =>
        /\ Cardinality(DOMAIN built.result.leaves) = Len(built.result.stakeHolders)
        /\ \A i \in DOMAIN built.result.stakeHolders :
               DesignatesOwnLeaf(built.result, i)

\* the case of C29 that does hold: the stakeholders' keys are all different
C29_DistinctKeysOwnLeaf ==
    (built.kind = "pool" /\ built.error = ""
        /\ ~RepeatedKey(built.result.stakeHolders)) =>
        /\ Cardinality(DOMAIN built.result.leaves) = Len(built.result.stakeHolders)
        /\ \A i \in DOMAIN built.result.stakeHolders :
               DesignatesOwnLeaf(built.result, i)

\* a pool in which two transfers pay the same recipient different amounts
C29_SameRecipientWitness ==
    /\ built.kind = "pool" /\ built.error = ""
    /\ Len(built.args) = 2
    /\ built.args[1].toPublicKey = built.args[2].toPublicKey
    /\ \E i \in DOMAIN built.result.stakeHolders :
           ~DesignatesOwnLeaf(built.result, i)

\* a pool in which the recipient of one transfer is the change owner of another
C29_RecipientIsChangeOwnerWitness ==
    /\ built.kind = "pool" /\ built.error = ""
    /\ Len(built.args) = 2
    /\ built.args[1].toPublicKey # built.args[2].toPublicKey
    /\ Len(built.result.stakeHolders) > Cardinality(DOMAIN built.result.leaves)

\* ------------------------------------------- properties: the batching timer
\* setTimeout fires its callback, and createPoolTransaction returns or throws
FairBatchSpec ==
    /\ Init /\ [][BatchNext]_vars
    /\ WF_vars(TimerFire)
    /\ WF_vars(\E orders \in building : PoolBuilt(orders) \/ PoolBuildFails(orders))

\* where the order of request `id` is held: positions of the queue and of the
\* batches handed to processSendOrders
Places(id) ==
    {<<"queue", queue, j>> : j \in {k \in DOMAIN queue : queue[k].id = id}}
        \cup UNION {{<<"batch", orders, j>> :
                         j \in {k \in DOMAIN orders : orders[k].id = id}} :
                       orders \in building}

Settled(id) == requests[id].state \in {"resolved", "rejected"}

\* an accepted request is in one place until its promise is settled, and in
\* none afterwards; the timer is armed exactly while the queue is non-empty
OneBatchPerRequest ==
    /\ \A id \in DOMAIN requests :
           Cardinality(Places(id)) = IF requests[id].state = "pending" THEN 1 ELSE 0
    /\ timer <=> queue # <<>>

\* a promise is settled by the end of the build of its batch, once; a request
\* that arrives goes to the queue under the timer and to no batch in progress
BatchStep ==
    /\ \A id \in DOMAIN requests :
           /\ requests[id].state # "pending" => requests'[id] = requests[id]
           /\ (requests[id].state = "pending" /\ requests'[id].state # "pending") =>
                  \E orders \in building :
                      /\ id \in OrderIds(orders)
                      /\ building' = building \ {orders}
                      /\ \A other \in OrderIds(orders) :
                             requests'[other].state = requests'[id].state
    /\ (Len(requests') > Len(requests) /\ requests'[Len(requests')].state = "pending") =>
           /\ building' = building
           /\ Len(queue') = Len(queue) + 1
           /\ SubSeq(queue', 1, Len(queue)) = queue
           /\ queue'[Len(queue')].id = Len(requests')
           /\ timer'

\* C30: every accepted request belongs to exactly one batch and its promise
\* is settled exactly once, eventually, once the timer fires and the pool
\* build returns or fails; the timer is armed exactly while the queue is
\* non-empty; a request that arrives while an earlier batch is being built is
\* queued under a new timer, neither lost nor added to the batch in progress.
C30_EveryRequestSettledOnce ==
    /\ []OneBatchPerRequest
    /\ [][BatchStep]_vars
    /\ \A id \in 1..MaxRequests :
           (id \in DOMAIN requests /\ requests[id].state = "pending") ~>
               (id \in DOMAIN requests /\ Settled(id))

\* C30 witness: a request was queued under a new timer while the batch of an
\* earlier request is still being built
C30_Witness ==
    /\ building # {}
    /\ queue # <<>>
    /\ timer
    /\ \E orders \in building : \A j \in DOMAIN queue :
           queue[j].id \notin OrderIds(orders)

\* both requests were settled, by the builds of two different batches
C30_TwoBatchesSettledWitness ==
    /\ Len(requests) = 2
    /\ Settled(1) /\ Settled(2)
    /\ requests[1].state = "resolved" /\ requests[2].state = "resolved"
    /\ requests[1].txID # requests[2].txID
    /\ queue = <<>> /\ building = {} /\ ~timer

====
